---- MODULE Spec2Model ----
(***************************************************************************)
(* A model of the matching/ranking engine of the faculty matcher:          *)
(* resume_matcher/matcher.py (ResumeMatcher) and                           *)
(* resume_matcher/enhanced_matcher.py (EnhancedMatcher).                   *)
(*                                                                         *)
(* Python floats are modelled as exact rationals <<n, d>> with d > 0 in    *)
(* lowest terms, so "sums to 1.0 within tolerance" is "equals 1" here.     *)
(* Texts are abstracted to tokens ("" is the empty text); the external     *)
(* NLP backends (scikit-learn, sentence-transformers, spaCy, rank_bm25)    *)
(* are deterministic tables over those tokens.                             *)
(***************************************************************************)
EXTENDS Integers, Sequences, FiniteSets, TLC

VARIABLES
    matcher,          \* "base" (ResumeMatcher) or "enhanced" (EnhancedMatcher)
    use_transformer,  \* ResumeMatcher.use_transformer
    use_spacy,        \* ResumeMatcher.use_spacy
    personalization,  \* EnhancedMatcher.personalization: key -> rational
    query,            \* the query profile the caller ranks
    candidates,       \* the candidate list the caller ranks
    call,             \* the last match_resume_with_faculty call and its result
    prev,             \* the call before it
    nCalls,           \* number of calls made so far
    lastSet,          \* the last set_personalization: before, kwargs, after
    adjusted,         \* the last dynamic_weight_adjustment: inputs and result
    vectorizer,       \* <<thread, signal>> of the last fit of self.vectorizer
    threads,          \* the concurrent scorers of SpecConc
    probe,            \* the last call of a provider or scoring helper, with its outcome
    evaluation,       \* the evaluate_matcher runs: workload, last and previous results
    construction      \* the __init__ call: its arguments and which model loads failed

vars == <<matcher, use_transformer, use_spacy, personalization, query,
          candidates,       call, prev, nCalls, lastSet, adjusted, vectorizer,
          threads, probe, evaluation, construction>>

----------------------------------------------------------------------------
(* Bounds of the model.                                                    *)

MaxBatch == 2

MaxCalls == 2

MaxSets == 2

----------------------------------------------------------------------------
(* Exact rational arithmetic standing for Python float arithmetic.         *)

RECURSIVE Gcd(_, _)
Gcd(a, b) == IF b = 0 THEN a ELSE Gcd(b, a % b)

Abs(n) == IF n < 0 THEN -n ELSE n

R(n, d) ==
    LET s == IF d < 0 THEN -1 ELSE 1
        g == Gcd(Abs(n), Abs(d))
    IN  IF n = 0 THEN <<0, 1>> ELSE <<(s * n) \div g, (s * d) \div g>>

Zero == R(0, 1)

One == R(1, 1)

(* F applied to the value of x, x being evaluated once *)
Apply(F(_), x) == CHOOSE r \in {F(v) : v \in {x}} : TRUE

RAdd(x, y) == R(x[1] * y[2] + y[1] * x[2], x[2] * y[2])

RMul(x, y) == R(x[1] * y[1], x[2] * y[2])

RDiv(x, y) == R(x[1] * y[2], x[2] * y[1])

(* comparisons multiply across by the denominators without their common    *)
(* factor, which keeps the products small                                  *)
RLt(x, y) ==
    LET g == Gcd(x[2], y[2])
    IN  x[1] * (y[2] \div g) < y[1] * (x[2] \div g)

RLe(x, y) ==
    LET g == Gcd(x[2], y[2])
    IN  x[1] * (y[2] \div g) <= y[1] * (x[2] \div g)

RMin(x, y) == IF RLe(x, y) THEN x ELSE y

RMax(x, y) == IF RLe(x, y) THEN y ELSE x

(* round(x, 2), as an integer number of hundredths; a tie goes to the even *)
(* neighbour, as Python's round does for an exactly representable tie.     *)
Round2(x) ==
    LET n == x[1] * 100
        q == n \div x[2]
        r == n - q * x[2]
    IN  IF 2 * r < x[2] THEN q
        ELSE IF 2 * r > x[2] THEN q + 1
        ELSE IF q % 2 = 0 THEN q ELSE q + 1

----------------------------------------------------------------------------
(* Weight policy: EnhancedMatcher.personalization and set_personalization. *)

Keys == {"interests_weight", "education_weight", "publications_weight",
         "keywords_weight", "citation_weight", "awards_weight",
         "grants_weight"}

Weights(i, e, p, k, c, a, g) ==
    [interests_weight |-> i, education_weight |-> e, publications_weight |-> p,
     keywords_weight |-> k, citation_weight |-> c, awards_weight |-> a,
     grants_weight |-> g]

DefaultPersonalization == Weights(R(1, 2), R(1, 5), R(1, 10), R(1, 5), Zero, Zero, Zero)

(* sum(d.values()) for a weight dictionary *)
WeightSum(w) ==
    RAdd(w.interests_weight,
    RAdd(w.education_weight,
    RAdd(w.publications_weight,
    RAdd(w.keywords_weight,
    RAdd(w.citation_weight,
    RAdd(w.awards_weight, w.grants_weight))))))

(* for key in d: d[key] /= weight_sum *)
DivideAll(w, weight_sum) ==
    Weights(RDiv(w.interests_weight, weight_sum), RDiv(w.education_weight, weight_sum),
            RDiv(w.publications_weight, weight_sum), RDiv(w.keywords_weight, weight_sum),
            RDiv(w.citation_weight, weight_sum), RDiv(w.awards_weight, weight_sum),
            RDiv(w.grants_weight, weight_sum))

(* the normalisation that ends set_personalization and                     *)
(* dynamic_weight_adjustment: divide by the sum only if the sum is > 0     *)
Normalize(weights) ==
    Apply(LAMBDA w :
              Apply(LAMBDA weight_sum :
                        IF RLt(Zero, weight_sum) THEN DivideAll(w, weight_sum) ELSE w,
                    WeightSum(w)),
          weights)

(* the value of key k after the loop over kwargs.items() *)
Overridden(p, kwargs, k) == IF k \in DOMAIN kwargs THEN kwargs[k] ELSE p[k]

(* set_personalization with kwargs: kwargs is a function from key names to *)
(* values; names that are not keys of self.personalization are skipped     *)
set_personalization(p, kwargs) ==
    Normalize(Weights(Overridden(p, kwargs, "interests_weight"),
                      Overridden(p, kwargs, "education_weight"),
                      Overridden(p, kwargs, "publications_weight"),
                      Overridden(p, kwargs, "keywords_weight"),
                      Overridden(p, kwargs, "citation_weight"),
                      Overridden(p, kwargs, "awards_weight"),
                      Overridden(p, kwargs, "grants_weight")))

----------------------------------------------------------------------------
(* Profiles.  A field holds a token; "" stands for a field that is absent  *)
(* or empty (both falsy for bool(d.get(..))), "malformed" for a value of   *)
(* the wrong shape (a list of strings where dicts are expected, a non-dict *)
(* citation_metrics, a non-string award).                                  *)

Truthy(v) == v # ""

(* a redistribution that ignores availability: equal thirds to education,  *)
(* publications and keywords                                               *)
RedistributeInterestsToAll(w, has_education, has_publications) ==
    LET share == RDiv(w.interests_weight, R(3, 1))
    IN  Weights(Zero, RAdd(w.education_weight, share),
                RAdd(w.publications_weight, share),
                RAdd(w.keywords_weight, share),
                w.citation_weight, w.awards_weight, w.grants_weight)

(* the branch for missing research interests: their weight goes in equal   *)
(* shares to education and publications if available, and to keywords     *)
RedistributeInterests(w, has_education, has_publications) ==
    LET interests_weight == w.interests_weight
        available_factors ==
            (IF has_education THEN {"education_weight"} ELSE {})
            \cup (IF has_publications THEN {"publications_weight"} ELSE {})
            \cup {"keywords_weight"}
        share == RDiv(interests_weight, R(Cardinality(available_factors), 1))
    IN  Weights(Zero,
                IF has_education THEN RAdd(w.education_weight, share)
                ELSE w.education_weight,
                IF has_publications THEN RAdd(w.publications_weight, share)
                ELSE w.publications_weight,
                RAdd(w.keywords_weight, share),
                w.citation_weight, w.awards_weight, w.grants_weight)

(* an education branch that moves only the 70% share and drops the rest *)
RedistributeEducationToInterestsOnly(w) ==
    Weights(RAdd(w.interests_weight, RMul(w.education_weight, R(7, 10))),
            Zero, w.publications_weight, w.keywords_weight,
            w.citation_weight, w.awards_weight, w.grants_weight)

(* the branch for missing education: 70% to interests, 30% to keywords *)
RedistributeEducation(w) ==
    LET edu_weight == w.education_weight
    IN  Weights(RAdd(w.interests_weight, RMul(edu_weight, R(7, 10))),
                Zero,
                w.publications_weight,
                RAdd(w.keywords_weight, RMul(edu_weight, R(3, 10))),
                w.citation_weight, w.awards_weight, w.grants_weight)

(* the availability flags of dynamic_weight_adjustment *)
has_research_interests(resume_data, faculty) ==
    Truthy(resume_data.research_interests) /\ Truthy(faculty.research_interests)

has_education(resume_data, faculty) ==
    Truthy(resume_data.education) /\ Truthy(faculty.education)

has_publications(resume_data, faculty) ==
    Truthy(resume_data.publications) /\ Truthy(faculty.publications)

(* the first adjustment: if not has_research_interests *)
InterestsStep(w, resume_data, faculty) ==
    IF ~has_research_interests(resume_data, faculty)
    THEN RedistributeInterests(w, has_education(resume_data, faculty),
                               has_publications(resume_data, faculty))
    ELSE w

(* the second adjustment: if not has_education and                         *)
(* weights['education_weight'] > 0                                         *)
EducationStep(w, resume_data, faculty) ==
    IF ~has_education(resume_data, faculty) /\ RLt(Zero, w.education_weight)
    THEN RedistributeEducation(w)
    ELSE w

(* dynamic_weight_adjustment(resume_data, faculty) on personalization p;   *)
(* it starts from weights = self.personalization.copy()                    *)
dynamic_weight_adjustment(p, resume_data, faculty) ==
    Normalize(Apply(LAMBDA w : EducationStep(w, resume_data, faculty),
                    Apply(LAMBDA w : InterestsStep(w, resume_data, faculty), p)))

(* whether at least one signal is available for the pair *)
SignalAvailable(resume_data, faculty) ==
    \/ Truthy(resume_data.research_interests) /\ Truthy(faculty.research_interests)
    \/ Truthy(resume_data.education) /\ Truthy(faculty.education)
    \/ Truthy(resume_data.publications) /\ Truthy(faculty.publications)

----------------------------------------------------------------------------
(* The external backends, as deterministic tables over text tokens.        *)
(* "ml" = "Machine Learning", "dl" = "Deep Learning", "art" = "Art         *)
(* History", "phd" = "PhD Computer Science Stanford University", "mlv" = a *)
(* long text on machine learning that differs from "ml" in one word.       *)

Related(a, b) == {a, b} = {"ml", "dl"}

NearlySame(a, b) == {a, b} = {"ml", "mlv"}

(* cosine_similarity of the two TF-IDF rows: vectors with non-negative     *)
(* entries, so a value in [0,1]                                            *)
TfidfCosine(a, b) ==
    IF a = b THEN One ELSE IF NearlySame(a, b) THEN R(24, 25)
    ELSE IF Related(a, b) THEN R(1, 3) ELSE Zero

(* cosine_similarity of two sentence embeddings: dense vectors, so a value *)
(* in [-1,1]                                                               *)
EmbeddingCosine(a, b) ==
    IF a = b THEN One ELSE IF NearlySame(a, b) THEN R(24, 25)
    ELSE IF Related(a, b) THEN R(3, 4) ELSE R(-1, 10)

(* doc1.similarity(doc2) of spaCy's averaged word vectors *)
SpacyDocSimilarity(a, b) ==
    IF a = b THEN One ELSE IF NearlySame(a, b) THEN R(24, 25)
    ELSE IF Related(a, b) THEN R(4, 5) ELSE Zero

(* BM25Okapi(corpus).get_scores(query)[0] for the one-document corpus: the *)
(* idf of every corpus term is log(0.5) - log(1.5) < 0 and is floored to   *)
(* epsilon * average_idf, which is negative too, so a shared term scores   *)
(* below zero and an unshared one scores 0                                 *)
Bm25FirstScore(q, d) ==
    IF q = d THEN R(-1, 2) ELSE IF Related(q, d) THEN R(-1, 4) ELSE Zero

(* An interests text as the sequence of its words; the token of a text     *)
(* stands for these words.                                                 *)
WordsOf(t) ==
    CASE t = "ml" -> <<"Machine", "Learning">>
      [] t = "dl" -> <<"Deep", "Learning">>
      [] t = "art" -> <<"Art", "History">>
      [] OTHER -> <<>>

(* k.lower() *)
LowerWord(w) ==
    CASE w = "Machine" -> "machine"
      [] w = "Learning" -> "learning"
      [] w = "Deep" -> "deep"
      [] w = "Art" -> "art"
      [] w = "History" -> "history"
      [] OTHER -> w

(* a run of at least three letters, as \b[a-zA-Z]{3,}\b finds it *)
IsLongWord(w) == w # "ai"

(* word.lower() in stopwords.words('english') *)
IsStopWord(w) == LowerWord(w) = "the"

(* token.pos_ in ('NOUN', 'PROPN') as spaCy tags the word *)
IsNoun(w) == LowerWord(w) # "the"

----------------------------------------------------------------------------
(* Similarity providers of ResumeMatcher.                                  *)

calculate_tfidf_similarity(text1, text2) ==
    IF ~Truthy(text1) \/ ~Truthy(text2) THEN Zero ELSE TfidfCosine(text1, text2)

calculate_transformer_similarity(ut, text1, text2) ==
    IF ~ut THEN Zero
    ELSE IF ~Truthy(text1) \/ ~Truthy(text2) THEN Zero
    ELSE EmbeddingCosine(text1, text2)

calculate_spacy_similarity(us, text1, text2) ==
    IF ~us THEN Zero
    ELSE IF ~Truthy(text1) \/ ~Truthy(text2) THEN Zero
    ELSE SpacyDocSimilarity(text1, text2)

(* a blend that divides by the weights of all three providers, enabled or  *)
(* not                                                                     *)
BlendOverAllWeights(ut, us, tfidf_sim, transformer_sim, spacy_sim) ==
    LET c0 == RMul(tfidf_sim, R(2, 5))
        c1 == IF ut THEN RAdd(c0, RMul(transformer_sim, R(2, 5))) ELSE c0
        c2 == IF us THEN RAdd(c1, RMul(spacy_sim, R(1, 5))) ELSE c1
    IN  RDiv(c2, RAdd(R(2, 5), RAdd(R(2, 5), R(1, 5))))

(* the blend of calculate_combined_similarity from the scores its provider *)
(* calls returned: each enabled provider adds score * weight to            *)
(* combined_sim and its weight to total_weight                             *)
BlendProviders(ut, us, tfidf_sim, transformer_sim, spacy_sim) ==
    LET tfidf_weight == R(2, 5)
        transformer_weight == R(2, 5)
        spacy_weight == R(1, 5)
        c0 == RMul(tfidf_sim, tfidf_weight)
        c1 == IF ut THEN RAdd(c0, RMul(transformer_sim, transformer_weight)) ELSE c0
        t1 == IF ut THEN RAdd(tfidf_weight, transformer_weight) ELSE tfidf_weight
        c2 == IF us THEN RAdd(c1, RMul(spacy_sim, spacy_weight)) ELSE c1
        t2 == IF us THEN RAdd(t1, spacy_weight) ELSE t1
    IN  IF RLt(Zero, t2) THEN RDiv(c2, t2) ELSE c2

(* tfidf_sim is what calculate_tfidf_similarity(text1, text2) returned *)
calculate_combined_similarity(ut, us, tfidf_sim, text1, text2) ==
    BlendProviders(ut, us, tfidf_sim,
                   calculate_transformer_similarity(ut, text1, text2),
                   calculate_spacy_similarity(us, text1, text2))

(* calculate_bm25_similarity(query_tokens, [doc_tokens]) as the ranker     *)
(* calls it: the first score over max(scores), or over 1.0 if that maximum *)
(* is not positive                                                         *)
calculate_bm25_similarity(q, d) ==
    IF ~Truthy(q) \/ ~Truthy(d) THEN Zero
    ELSE LET s == Bm25FirstScore(q, d)
             max_score == IF RLt(Zero, s) THEN s ELSE One
         IN  RDiv(s, max_score)

(* re.findall(r'\b[a-zA-Z]{3,}\b', text) *)
RECURSIVE LongWords(_)
LongWords(words) ==
    IF Len(words) = 0 THEN <<>>
    ELSE IF IsLongWord(Head(words)) THEN <<Head(words)>> \o LongWords(Tail(words))
    ELSE LongWords(Tail(words))

(* [word for word in words if word.lower() not in stop_words] *)
RECURSIVE WithoutStopWords(_)
WithoutStopWords(words) ==
    IF Len(words) = 0 THEN <<>>
    ELSE IF IsStopWord(Head(words)) THEN WithoutStopWords(Tail(words))
    ELSE <<Head(words)>> \o WithoutStopWords(Tail(words))

(* list(set(...)): each element once, in some order *)
RECURSIVE ListOfSet(_)
ListOfSet(S) ==
    IF S = {} THEN <<>>
    ELSE LET x == CHOOSE y \in S : TRUE
         IN  <<x>> \o ListOfSet(S \ {x})

(* extract_keywords(text): with spaCy the nouns and proper nouns of the    *)
(* text, each once; without it the words of three letters or more that are *)
(* no stopwords, or all of them when the stopword list cannot be read      *)
extract_keywords(us, stopwords_readable, words) ==
    IF Len(words) = 0 THEN <<>>
    ELSE IF us
    THEN ListOfSet({words[n] : n \in {m \in 1..Len(words) : IsNoun(words[m])}})
    ELSE IF stopwords_readable THEN WithoutStopWords(LongWords(words))
    ELSE LongWords(words)

(* an overlap divided by the number of different keywords of the resume *)
OverlapOverDistinct(resume_keywords, faculty_keywords) ==
    LET common_keywords ==
            {LowerWord(resume_keywords[n]) : n \in 1..Len(resume_keywords)}
            \cap {LowerWord(faculty_keywords[n]) : n \in 1..Len(faculty_keywords)}
        distinct == Cardinality({resume_keywords[n] : n \in 1..Len(resume_keywords)})
    IN  R(Cardinality(common_keywords), IF distinct > 1 THEN distinct ELSE 1)

(* len(common_keywords) / max(len(resume_keywords), 1) *)
KeywordOverlap(resume_keywords, faculty_keywords) ==
    LET common_keywords ==
            {LowerWord(resume_keywords[n]) : n \in 1..Len(resume_keywords)}
            \cap {LowerWord(faculty_keywords[n]) : n \in 1..Len(faculty_keywords)}
    IN  R(Cardinality(common_keywords),
          IF Len(resume_keywords) > 1 THEN Len(resume_keywords) ELSE 1)

(* keyword_match of the loop body, from the words of the two interests     *)
(* texts                                                                   *)
KeywordMatchOfWords(us, stopwords_readable, resume_words, faculty_words) ==
    IF Len(resume_words) > 0 /\ Len(faculty_words) > 0
    THEN LET resume_keywords == extract_keywords(us, stopwords_readable, resume_words)
             faculty_keywords == extract_keywords(us, stopwords_readable, faculty_words)
         IN  IF Len(resume_keywords) > 0 /\ Len(faculty_keywords) > 0
             THEN KeywordOverlap(resume_keywords, faculty_keywords)
             ELSE Zero
    ELSE Zero

(* the keyword overlap of the ranker's loop body *)
KeywordMatch(us, resume_text, faculty_text) ==
    KeywordMatchOfWords(us, TRUE, WordsOf(resume_text), WordsOf(faculty_text))

----------------------------------------------------------------------------
(* Impact signals and the domain boost of EnhancedMatcher.                 *)

(* faculty['citation_metrics'] for a well-formed token *)
CitationMetrics(t) ==
    IF t = "h20" THEN [h_index |-> 20, total_citations |-> 5000]
    ELSE [h_index |-> 0, total_citations |-> 0]

calculate_citation_impact(faculty) ==
    IF ~Truthy(faculty.citation_metrics) THEN Zero
    ELSE LET metrics == CitationMetrics(faculty.citation_metrics)
             h_index_score == RMin(R(metrics.h_index, 40), One)
             citation_score == RMin(R(metrics.total_citations, 10000), One)
         IN  RAdd(RMul(R(7, 10), h_index_score), RMul(R(3, 10), citation_score))

(* an award is [str, prestigious, major]: whether it is a string, and      *)
(* whether a prestigious / a major term occurs in it                       *)
CountWhere(awards, Test(_)) == Cardinality({i \in 1..Len(awards) : Test(awards[i])})

(* prestigious_count, major_count and other_count of                       *)
(* calculate_award_recognition                                             *)
AwardCounts(awards) ==
    LET IsPrestigious(a) == a.prestigious
        IsMajor(a) == a.major
        prestigious_count == CountWhere(awards, IsPrestigious)
        major_count == CountWhere(awards, IsMajor)
    IN  [prestigious_count |-> prestigious_count,
         major_count |-> major_count,
         other_count |-> Len(awards) - prestigious_count - major_count]

calculate_award_recognition(faculty) ==
    IF Len(faculty.awards) = 0 THEN Zero
    ELSE LET awards == faculty.awards
             prestigious_count == AwardCounts(awards).prestigious_count
             major_count == AwardCounts(awards).major_count
             other_count == AwardCounts(awards).other_count
             total == RAdd(RMul(R(prestigious_count, 1), R(1, 2)),
                      RAdd(RMul(R(major_count, 1), R(3, 10)),
                           RMul(R(other_count, 1), R(1, 10))))
         IN  RMin(RDiv(total, R(Len(awards), 1)), One)

(* a grant is [amount, active] *)
RECURSIVE SumAmounts(_)
SumAmounts(funding) ==
    IF funding = <<>> THEN 0 ELSE Head(funding).amount + SumAmounts(Tail(funding))

calculate_funding_score(faculty) ==
    IF Len(faculty.funding) = 0 THEN Zero
    ELSE LET funding == faculty.funding
             IsActive(g) == g.active
             amount_score == RMin(R(SumAmounts(funding), 5000000), One)
             count_score == RMin(R(Len(funding), 10), One)
             active_score == RMin(R(CountWhere(funding, IsActive), 5), One)
         IN  RAdd(RMul(R(2, 5), amount_score),
             RAdd(RMul(R(3, 10), count_score), RMul(R(3, 10), active_score)))

(* self.domain_boosts, in twentieths above 1.0 *)
domain_boosts ==
    [d \in {"machine learning", "artificial intelligence", "deep learning",
            "natural language processing", "computer vision",
            "reinforcement learning", "robotics", "data mining", "data science",
            "cybersecurity", "blockchain", "quantum computing"} |->
        CASE d \in {"machine learning", "artificial intelligence", "deep learning",
                    "quantum computing"} -> R(6, 5)
          [] d \in {"natural language processing", "computer vision",
                    "reinforcement learning"} -> R(23, 20)
          [] OTHER -> R(11, 10)]

(* Interest strings, as sequences of pieces of text: a word, a part of a   *)
(* word or one blank " ". No piece holds the text of another, so one text  *)
(* is a substring of another exactly when its pieces occur in it in a row. *)

(* str.lower() on one piece *)
LowerPiece(c) ==
    CASE c = "Machine" -> "machine"
      [] c = "Learning" -> "learning"
      [] c = "Deep" -> "deep"
      [] c = "ROBOTICS" -> "robotics"
      [] c = "Art" -> "art"
      [] c = "History" -> "history"
      [] OTHER -> c

(* str(i).lower() *)
Lower(str) == [n \in 1..Len(str) |-> LowerPiece(str[n])]

(* " ".join(str(i).lower() for i in faculty_interests) *)
RECURSIVE JoinLower(_)
JoinLower(faculty_interests) ==
    IF Len(faculty_interests) = 0 THEN <<>>
    ELSE IF Len(faculty_interests) = 1 THEN Lower(faculty_interests[1])
    ELSE Lower(faculty_interests[1]) \o <<" ">> \o JoinLower(Tail(faculty_interests))

(* domain in interests_text *)
OccursIn(sub, text) ==
    \E n \in 0..(Len(text) - Len(sub)) : SubSeq(text, n + 1, n + Len(sub)) = sub

(* the text of a key of self.domain_boosts *)
DomainText(d) ==
    CASE d = "machine learning" -> <<"machine", " ", "learning">>
      [] d = "artificial intelligence" -> <<"artificial", " ", "intelligence">>
      [] d = "deep learning" -> <<"deep", " ", "learning">>
      [] d = "natural language processing" ->
             <<"natural", " ", "language", " ", "processing">>
      [] d = "computer vision" -> <<"computer", " ", "vision">>
      [] d = "reinforcement learning" -> <<"reinforcement", " ", "learning">>
      [] d = "data mining" -> <<"data", " ", "mining">>
      [] d = "data science" -> <<"data", " ", "science">>
      [] d = "quantum computing" -> <<"quantum", " ", "computing">>
      [] OTHER -> <<d>>

(* the domains that occur in the lower-cased, joined interests text *)
DomainsIn(interests_text) ==
    {d \in DOMAIN domain_boosts : OccursIn(DomainText(d), interests_text)}

(* a scan that keeps the boost of the last matching domain it meets *)
RECURSIVE LastBoost(_, _)
LastBoost(ds, acc) ==
    IF ds = {} THEN acc
    ELSE LET d == CHOOSE x \in ds : TRUE
         IN  LastBoost(ds \ {d}, domain_boosts[d])

(* max_boost = max(max_boost, boost) over the matching domains *)
RECURSIVE MaxBoost(_, _)
MaxBoost(ds, acc) ==
    IF ds = {} THEN acc
    ELSE LET d == CHOOSE x \in ds : TRUE
         IN  MaxBoost(ds \ {d}, RMax(acc, domain_boosts[d]))

(* faculty_interests is a list of interest strings *)
calculate_domain_boost(faculty_interests) ==
    IF Len(faculty_interests) = 0 THEN One
    ELSE MaxBoost(Apply(DomainsIn, JoinLower(faculty_interests)), One)

(* the research_interests list that a text token of the ranker's workload  *)
(* stands for                                                              *)
InterestsOf(t) ==
    CASE t = "ml" -> << <<"Machine", " ", "Learning">> >>
      [] t = "dl" -> << <<"Deep", " ", "Learning">> >>
      [] t = "art" -> << <<"Art", " ", "History">> >>
      [] OTHER -> <<>>

----------------------------------------------------------------------------
(* The ranker: match_resume_with_faculty of ResumeMatcher ("base") and of  *)
(* EnhancedMatcher ("enhanced").                                           *)

(* whether the loop body raises for this candidate: edu.get on an entry    *)
(* that is no dict (both rankers); metrics.get on citation_metrics that is *)
(* no dict, award.lower() on an award that is no string (enhanced only)    *)
Raises(kind, faculty) ==
    \/ faculty.education = "malformed"
    \/ /\ kind = "enhanced"
       /\ \/ faculty.citation_metrics = "malformed"
          \/ \E i \in 1..Len(faculty.awards) : ~faculty.awards[i].str

(* the weights the loop body uses *)
BaseWeights == Weights(R(1, 2), R(1, 5), R(1, 10), R(1, 5), Zero, Zero, Zero)

(* the three calculate_tfidf_similarity results of one loop body when no   *)
(* other call touches self.vectorizer between its fit and its transform    *)
SequentialTfidf(resume_data, faculty) ==
    [interests |-> calculate_tfidf_similarity(resume_data.research_interests,
                                              faculty.research_interests),
     education |-> calculate_tfidf_similarity(resume_data.education, faculty.education),
     publications |-> calculate_tfidf_similarity(resume_data.publications,
                                                 faculty.publications)]

(* the weighted sum of the loop body, before any boost; tfidf holds the    *)
(* results of its calculate_tfidf_similarity calls                         *)
WeightedSum(kind, ut, us, weights, resume_data, faculty, tfidf) ==
    LET interests_nlp_similarity ==
            calculate_combined_similarity(ut, us, tfidf.interests,
                                          resume_data.research_interests,
                                          faculty.research_interests)
        bm25_score == calculate_bm25_similarity(resume_data.research_interests,
                                                faculty.research_interests)
        interests_similarity ==
            IF kind = "enhanced"
            THEN RAdd(RMul(R(7, 10), interests_nlp_similarity), RMul(R(3, 10), bm25_score))
            ELSE interests_nlp_similarity
        education_similarity ==
            IF Truthy(faculty.education)
            THEN calculate_combined_similarity(ut, us, tfidf.education,
                                               resume_data.education, faculty.education)
            ELSE Zero
        publications_similarity ==
            calculate_combined_similarity(ut, us, tfidf.publications,
                                          resume_data.publications, faculty.publications)
        keyword_match == KeywordMatch(us, resume_data.research_interests,
                                      faculty.research_interests)
        core == RAdd(RMul(interests_similarity, weights.interests_weight),
                RAdd(RMul(education_similarity, weights.education_weight),
                RAdd(RMul(publications_similarity, weights.publications_weight),
                     RMul(keyword_match, weights.keywords_weight))))
        impact == RAdd(RMul(calculate_citation_impact(faculty), weights.citation_weight),
                  RAdd(RMul(calculate_award_recognition(faculty), weights.awards_weight),
                       RMul(calculate_funding_score(faculty), weights.grants_weight)))
    IN  [interests_similarity |-> interests_similarity,
         education_similarity |-> education_similarity,
         publications_similarity |-> publications_similarity,
         keyword_match |-> keyword_match,
         sum |-> IF kind = "enhanced" THEN RAdd(core, impact) ELSE core]

(* overall_score *= domain_boost; overall_score = min(overall_score, 1.0) *)
BoostAndCap(overall_score, domain_boost) == RMin(RMul(overall_score, domain_boost), One)

(* the unrounded overall score of one candidate from its weighted sum *)
OverallScore(kind, sum, faculty) ==
    IF kind = "enhanced"
    THEN BoostAndCap(sum, calculate_domain_boost(InterestsOf(faculty.research_interests)))
    ELSE sum

(* the dict appended to matches, from the scores ws of the candidate;      *)
(* every score in hundredths after round(.., 2)                            *)
EntryOf(kind, faculty, ws) ==
    LET overall == Round2(OverallScore(kind, ws.sum, faculty))
    IN  IF kind = "enhanced"
        THEN [faculty_id |-> faculty.faculty_id,
              interests_similarity |-> Round2(ws.interests_similarity),
              education_similarity |-> Round2(ws.education_similarity),
              publications_similarity |-> Round2(ws.publications_similarity),
              keyword_match |-> Round2(ws.keyword_match),
              citation_impact |-> Round2(calculate_citation_impact(faculty)),
              award_recognition |-> Round2(calculate_award_recognition(faculty)),
              funding_score |-> Round2(calculate_funding_score(faculty)),
              domain_boost |-> Round2(calculate_domain_boost(InterestsOf(faculty.research_interests))),
              overall_score |-> overall]
        ELSE [faculty_id |-> faculty.faculty_id,
              interests_similarity |-> Round2(ws.interests_similarity),
              education_similarity |-> Round2(ws.education_similarity),
              publications_similarity |-> Round2(ws.publications_similarity),
              keyword_match |-> Round2(ws.keyword_match),
              overall_score |-> overall]

(* the loop body after the weights are known: the scores, then the dict *)
MatchEntry(kind, ut, us, weights, resume_data, faculty, tfidf) ==
    Apply(LAMBDA w :
              Apply(LAMBDA ws : EntryOf(kind, faculty, ws),
                    WeightedSum(kind, ut, us, w, resume_data, faculty, tfidf)),
          weights)

(* the dictionary after an adjustment made on self.personalization itself *)
(* instead of a copy of it                                                 *)
PersonalizationAdjustedInPlace(p, weights) == weights

(* what dynamic_weight_adjustment leaves in self.personalization: it works *)
(* on weights = self.personalization.copy(), so the dictionary is untouched *)
PersonalizationAfterAdjustment(p, weights) == p

(* an insertion that puts an entry ahead of the entries it ties with, as a *)
(* sort ascending followed by a reversal does                              *)
RECURSIVE InsertAheadOfTies(_, _)
InsertAheadOfTies(sorted, e) ==
    IF sorted = <<>> THEN <<e>>
    ELSE IF Head(sorted).overall_score > e.overall_score
         THEN <<Head(sorted)>> \o InsertAheadOfTies(Tail(sorted), e)
         ELSE <<e>> \o sorted

(* a sort that keeps one entry per score *)
RECURSIVE InsertUnlessTied(_, _)
InsertUnlessTied(sorted, e) ==
    IF sorted = <<>> THEN <<e>>
    ELSE IF Head(sorted).overall_score > e.overall_score
         THEN <<Head(sorted)>> \o InsertUnlessTied(Tail(sorted), e)
         ELSE IF Head(sorted).overall_score = e.overall_score THEN sorted
         ELSE <<e>> \o sorted

(* matches.sort(key = overall_score, reverse = True): list.sort is stable, *)
(* also with reverse = True, so an entry goes after every entry whose      *)
(* score is at least its own                                               *)
RECURSIVE InsertDescending(_, _)
InsertDescending(sorted, e) ==
    IF sorted = <<>> THEN <<e>>
    ELSE IF Head(sorted).overall_score >= e.overall_score
         THEN <<Head(sorted)>> \o InsertDescending(Tail(sorted), e)
         ELSE <<e>> \o sorted

RECURSIVE SortDescending(_)
SortDescending(ms) ==
    IF Len(ms) = 0 THEN <<>>
    ELSE Apply(LAMBDA sorted : InsertDescending(sorted, ms[Len(ms)]),
               SortDescending(SubSeq(ms, 1, Len(ms) - 1)))

(* the per-candidate loop from candidate i on; st.p is self.personalization *)
(* and st.acc the matches list.  An exception raised by the loop body      *)
(* leaves match_resume_with_faculty: there is no try around the body, so   *)
(* nothing is returned.                                                    *)
RECURSIVE MatchLoop(_, _, _, _, _, _, _)
MatchLoop(kind, ut, us, st, resume_data, faculty_profiles, i) ==
    IF i > Len(faculty_profiles)
    THEN [raised |-> FALSE, matches |-> SortDescending(st.acc), personalization |-> st.p]
    ELSE LET faculty == faculty_profiles[i]
             Body(weights) ==
                 LET p1 == IF kind = "enhanced"
                           THEN PersonalizationAfterAdjustment(st.p, weights)
                           ELSE st.p
                 IN  IF Raises(kind, faculty)
                     THEN [raised |-> TRUE, matches |-> <<>>, personalization |-> p1]
                     ELSE Apply(LAMBDA st1 : MatchLoop(kind, ut, us, st1, resume_data,
                                                       faculty_profiles, i + 1),
                                [p |-> p1,
                                 acc |-> Append(st.acc,
                                                MatchEntry(kind, ut, us, weights,
                                                           resume_data, faculty,
                                                           SequentialTfidf(resume_data,
                                                                           faculty)))])
         IN  Apply(Body, IF kind = "enhanced"
                         THEN dynamic_weight_adjustment(st.p, resume_data, faculty)
                         ELSE BaseWeights)

(* match_resume_with_faculty(resume_data, faculty_profiles, personalization): *)
(* a truthy personalization goes through set_personalization first          *)
match_resume_with_faculty(kind, ut, us, p, resume_data, faculty_profiles, kwargs) ==
    LET p0 == IF kind = "enhanced" /\ DOMAIN kwargs # {}
              THEN set_personalization(p, kwargs) ELSE p
    IN  Apply(LAMBDA st : MatchLoop(kind, ut, us, st, resume_data, faculty_profiles, 1),
              [p |-> p0, acc |-> <<>>])

----------------------------------------------------------------------------
(* Inputs.                                                                 *)

NoAwards == <<>>

Resumes ==
    { [research_interests |-> "ml", education |-> "phd", publications |-> "ml"],
      [research_interests |-> "art", education |-> "", publications |-> ""],
      [research_interests |-> "", education |-> "", publications |-> ""] }

Fellow == [str |-> TRUE, prestigious |-> TRUE, major |-> FALSE]

NotAString == [str |-> FALSE, prestigious |-> FALSE, major |-> FALSE]

Grant == [amount |-> 1000000, active |-> TRUE]

Profile(id, ri, edu, pubs, cit, awards, funding) ==
    [faculty_id |-> id, research_interests |-> ri, education |-> edu,
     publications |-> pubs, citation_metrics |-> cit, awards |-> awards,
     funding |-> funding]

Faculty ==
    { Profile(1, "ml", "phd", "ml", "h20", <<Fellow>>, <<Grant>>),
      Profile(2, "dl", "", "", "", <<>>, <<>>),
      Profile(3, "dl", "", "", "", <<>>, <<>>),
      Profile(4, "", "", "", "", <<>>, <<>>),
      Profile(5, "ml", "malformed", "", "", <<>>, <<>>),
      Profile(6, "art", "phd", "", "", <<NotAString>>, <<>>) }

(* the lists of at most n distinct members of S *)
RECURSIVE ListsUpTo(_, _)
ListsUpTo(S, n) ==
    IF n = 0 THEN {<<>>}
    ELSE LET shorter == ListsUpTo(S, n - 1)
             longer == {Append(q, x) : q \in shorter, x \in S}
         IN  shorter \cup {q \in longer : \A i, j \in 1..Len(q) : q[i] = q[j] => i = j}

NoKwargs == [k \in {} |-> Zero]

CoreZero == [k \in {"interests_weight", "education_weight", "publications_weight",
                    "keywords_weight"} |-> Zero]

(* the personalization arguments tried on match_resume_with_faculty *)
MatchKwargs ==
    { NoKwargs,
      [k \in {"interests_weight"} |-> One],
      [k \in {"interests_weight"} |-> R(-1, 1)] }

(* the keyword arguments tried on set_personalization *)
SetKwargs ==
    (MatchKwargs \ {NoKwargs})
    \cup { CoreZero,
            [k \in {"education_weight"} |-> R(-1, 10)],
           [k \in {"citation_weight"} |-> R(1, 2)],
           [k \in {"bogus_weight"} |-> One],
           Weights(R(2, 1), One, One, One, One, One, One) }

NoCall == [made |-> FALSE, kwargs |-> NoKwargs, before |-> DefaultPersonalization,
           raised |-> FALSE, matches |-> <<>>]

NoSet == [made |-> FALSE, before |-> DefaultPersonalization, kwargs |-> NoKwargs]

NoAdjustment ==
    [made |-> FALSE,
     resume_data |-> [research_interests |-> "", education |-> "", publications |-> ""],
     faculty |-> [research_interests |-> "", education |-> "", publications |-> ""],
     weights |-> DefaultPersonalization]

NoThreads == <<>>

NoProbe == [made |-> FALSE]

NoEvaluation == [runs |-> 0]

(* a matcher whose __init__ has returned *)
Constructed == [done |-> TRUE]

----------------------------------------------------------------------------
(* Spec: one matcher instance ranking a workload, call after call.         *)

Init ==
    /\ matcher \in {"base", "enhanced"}
    /\ use_transformer \in BOOLEAN
    /\ use_spacy \in BOOLEAN
    /\ personalization = DefaultPersonalization
    /\ query \in Resumes
    /\ candidates \in ListsUpTo(Faculty, MaxBatch)
    /\ call = NoCall
    /\ prev = NoCall
    /\ nCalls = 0
    /\ lastSet = NoSet
    /\ adjusted = NoAdjustment
    /\ vectorizer = <<0, 0>>
    /\ threads = NoThreads
    /\ probe = NoProbe
    /\ evaluation = NoEvaluation
    /\ construction = Constructed

(* matcher.match_resume_with_faculty(query, candidates, kwargs) *)
Match(kwargs) ==
    /\ nCalls < MaxCalls
    /\ matcher = "base" => kwargs = NoKwargs
    /\ \E r \in {match_resume_with_faculty(matcher, use_transformer, use_spacy,
                                            personalization, query, candidates,
                                            kwargs)} :
           /\ personalization' = r.personalization
           /\ call' = [made |-> TRUE, kwargs |-> kwargs, before |-> personalization,
                       raised |-> r.raised, matches |-> r.matches]
    /\ prev' = call
    /\ nCalls' = nCalls + 1
    /\ UNCHANGED <<matcher, use_transformer, use_spacy, query, candidates,
                   lastSet, adjusted, vectorizer, threads,
                   probe, evaluation, construction>>

Next == \E kwargs \in MatchKwargs : Match(kwargs)

Spec == Init /\ [][Next]_vars

----------------------------------------------------------------------------
(* SpecWeights: the weight policy alone, set_personalization calls and     *)
(* dynamic_weight_adjustment on every availability pattern.                *)

(* the availability patterns of a profile: each field present or not *)
Shapes ==
    { [research_interests |-> ri, education |-> edu, publications |-> pubs] :
        ri \in {"", "ml"}, edu \in {"", "phd"}, pubs \in {"", "ml"} }

InitWeights ==
    /\ matcher = "enhanced"
    /\ use_transformer = TRUE
    /\ use_spacy = TRUE
    /\ personalization = DefaultPersonalization
    /\ query = CHOOSE r \in Resumes : TRUE
    /\ candidates = <<>>
    /\ call = NoCall
    /\ prev = NoCall
    /\ nCalls = 0
    /\ lastSet = NoSet
    /\ adjusted = NoAdjustment
    /\ vectorizer = <<0, 0>>
    /\ threads = NoThreads
    /\ probe = NoProbe
    /\ evaluation = NoEvaluation
    /\ construction = Constructed

(* matcher.set_personalization(kwargs) *)
SetPersonalization(kwargs) ==
    /\ nCalls < MaxSets
    /\ personalization' = set_personalization(personalization, kwargs)
    /\ lastSet' = [made |-> TRUE, before |-> personalization, kwargs |-> kwargs]
    /\ adjusted' = NoAdjustment
    /\ nCalls' = nCalls + 1
    /\ UNCHANGED <<matcher, use_transformer, use_spacy, query, candidates, call, prev,
                   vectorizer, threads,
                   probe, evaluation, construction>>

(* matcher.dynamic_weight_adjustment(resume_data, faculty) *)
DynamicWeightAdjustment(resume_data, faculty) ==
    /\ \E weights \in {dynamic_weight_adjustment(personalization, resume_data, faculty)} :
           /\ adjusted' = [made |-> TRUE, resume_data |-> resume_data,
                           faculty |-> faculty, weights |-> weights,
                           before |-> personalization,
                           has_research_interests |->
                               has_research_interests(resume_data, faculty),
                           has_education |-> has_education(resume_data, faculty),
                           has_publications |-> has_publications(resume_data, faculty),
                           after_interests |->
                               InterestsStep(personalization, resume_data, faculty)]
           /\ personalization' = PersonalizationAfterAdjustment(personalization, weights)
    /\ UNCHANGED <<matcher, use_transformer, use_spacy, query, candidates, call, prev,
                   nCalls, lastSet, vectorizer, threads,
                   probe, evaluation, construction>>

NextWeights ==
    \/ \E kwargs \in SetKwargs : SetPersonalization(kwargs)
    \/ \E resume_data \in Resumes, faculty \in Shapes :
          DynamicWeightAdjustment(resume_data, faculty)

SpecWeights == InitWeights /\ [][NextWeights]_vars

----------------------------------------------------------------------------
(* Claims about the weight policy (SpecWeights).                           *)

(* C1: the weight vector returned by dynamic_weight_adjustment sums to 1   *)
(* whenever at least one signal is available for the pair, and sums to 0   *)
(* only when no signal is available, in every personalization state that   *)
(* set_personalization can reach.                                          *)
C1_AdjustedWeightsSumToOne ==
    adjusted.made =>
        /\ SignalAvailable(adjusted.resume_data, adjusted.faculty)
              => WeightSum(adjusted.weights) = One
        /\ WeightSum(adjusted.weights) = Zero
              => ~SignalAvailable(adjusted.resume_data, adjusted.faculty)

(* C26: after dynamic_weight_adjustment every signal among interests,      *)
(* education and publications that is unavailable for the pair has weight  *)
(* 0 in the returned weights.                                              *)
C26_UnavailableSignalsWeighZero ==
    adjusted.made =>
        /\ ~adjusted.has_research_interests => adjusted.weights.interests_weight = Zero
        /\ ~adjusted.has_education => adjusted.weights.education_weight = Zero
        /\ ~adjusted.has_publications => adjusted.weights.publications_weight = Zero

(* C25: after any sequence of set_personalization calls the                *)
(* personalization weights sum to 1.0, and a call that names none of the   *)
(* seven weights leaves self.personalization as it was.                    *)
C25_PersonalizationSumsToOne ==
    lastSet.made =>
        /\ WeightSum(personalization) = One
        /\ DOMAIN lastSet.kwargs \cap Keys = {} => personalization = lastSet.before

(* both the query and the candidate provide non-empty data for the signal *)
BothSidesProvide(resume_data, faculty, signal) ==
    resume_data[signal] # "" /\ faculty[signal] # ""

(* the weights that receive a share of the interests weight for the pair *)
Recipients(resume_data, faculty) ==
    {"keywords_weight"}
    \cup (IF BothSidesProvide(resume_data, faculty, "education")
          THEN {"education_weight"} ELSE {})
    \cup (IF BothSidesProvide(resume_data, faculty, "publications")
          THEN {"publications_weight"} ELSE {})

(* C18: a signal is available for a pair only if both the query and the    *)
(* candidate provide non-empty data for it; when research interests are    *)
(* unavailable, dynamic_weight_adjustment sets the interests weight to 0   *)
(* and adds equal shares of it to keywords (always) and to each of         *)
(* education and publications that is available; every other weight and    *)
(* the total weight are unchanged by this step.                            *)
C18_InterestsRedistributedEqually ==
    adjusted.made =>
        LET resume_data == adjusted.resume_data
            faculty == adjusted.faculty
            before == adjusted.before
            after == adjusted.after_interests
            recipients == Recipients(resume_data, faculty)
            share == RDiv(before.interests_weight, R(Cardinality(recipients), 1))
        IN  /\ adjusted.has_research_interests
                  <=> BothSidesProvide(resume_data, faculty, "research_interests")
            /\ adjusted.has_education
                  <=> BothSidesProvide(resume_data, faculty, "education")
            /\ adjusted.has_publications
                  <=> BothSidesProvide(resume_data, faculty, "publications")
            /\ BothSidesProvide(resume_data, faculty, "research_interests")
                  => after = before
            /\ ~BothSidesProvide(resume_data, faculty, "research_interests")
                  => /\ after.interests_weight = Zero
                     /\ \A k \in recipients : after[k] = RAdd(before[k], share)
                     /\ \A k \in Keys \ (recipients \cup {"interests_weight"}) :
                            after[k] = before[k]
                     /\ WeightSum(after) = WeightSum(before)

(* interests are unavailable, education is available and has received a    *)
(* share of a positive interests weight, publications have not             *)
C18_Witness ==
    /\ adjusted.made
    /\ ~adjusted.has_research_interests
    /\ adjusted.has_education
    /\ ~adjusted.has_publications
    /\ RLt(Zero, adjusted.before.interests_weight)
    /\ adjusted.after_interests.education_weight
          = RAdd(adjusted.before.education_weight,
                 RDiv(adjusted.before.interests_weight, R(2, 1)))

(* an override that holds a negative weight, or leaves every weight zero *)
InvalidOverride(before, kwargs) ==
    \/ \E k \in DOMAIN kwargs \cap Keys : RLt(kwargs[k], Zero)
    \/ \A k \in Keys : Overridden(before, kwargs, k) = Zero

(* C3: a personalization override that holds a negative weight, or that    *)
(* leaves all weights zero, is rejected: after the set_personalization     *)
(* call self.personalization equals its value before the call.             *)
C3_InvalidOverrideRejected ==
    (lastSet.made /\ InvalidOverride(lastSet.before, lastSet.kwargs))
        => personalization = lastSet.before

----------------------------------------------------------------------------
(* Claims about the ranker (Spec).                                         *)

Returned == call.made /\ ~call.raised

(* self.personalization when the per-candidate loop of the last call began *)
LoopPersonalization ==
    IF matcher = "enhanced" /\ DOMAIN call.kwargs # {}
    THEN set_personalization(call.before, call.kwargs)
    ELSE call.before

(* the weights of one candidate, computed for that candidate alone *)
WeightsFor(p, faculty) ==
    IF matcher = "enhanced" THEN dynamic_weight_adjustment(p, query, faculty)
    ELSE BaseWeights

(* the weights of the candidate after the first adjustment of              *)
(* dynamic_weight_adjustment in the last call                              *)
AfterInterestsStep(faculty) == InterestsStep(LoopPersonalization, query, faculty)

(* education is unavailable for the candidate and its weight after the     *)
(* first adjustment is still positive                                      *)
EducationFreed(faculty) ==
    /\ ~(query.education # "" /\ faculty.education # "")
    /\ RLt(Zero, AfterInterestsStep(faculty).education_weight)

(* C19: when education is unavailable for a pair and its weight after the  *)
(* first adjustment is still > 0, dynamic_weight_adjustment sets the       *)
(* education weight to 0 and adds 70% of it to the interests weight and    *)
(* 30% of it to the keywords weight, every other weight and the total      *)
(* being unchanged by this step; the returned weights keep education at 0, *)
(* and the entry returned for such a candidate has                         *)
(* education_similarity 0.0.                                               *)
C19_EducationRedistributed ==
    (Returned /\ matcher = "enhanced") =>
        \A i \in 1..Len(candidates) :
            EducationFreed(candidates[i]) =>
                LET faculty == candidates[i]
                    step1 == AfterInterestsStep(faculty)
                    step2 == EducationStep(step1, query, faculty)
                    freed == step1.education_weight
                IN  /\ step2.education_weight = Zero
                    /\ step2.interests_weight
                          = RAdd(step1.interests_weight, RMul(R(7, 10), freed))
                    /\ step2.keywords_weight
                          = RAdd(step1.keywords_weight, RMul(R(3, 10), freed))
                    /\ \A k \in Keys \ {"education_weight", "interests_weight",
                                         "keywords_weight"} : step2[k] = step1[k]
                    /\ WeightSum(step2) = WeightSum(step1)
                    /\ WeightsFor(LoopPersonalization, faculty).education_weight = Zero
                    /\ \A j \in 1..Len(call.matches) :
                           call.matches[j].faculty_id = faculty.faculty_id
                               => call.matches[j].education_similarity = 0

(* an enhanced call has returned an entry for a candidate that provides    *)
(* education while the resume provides none, with a positive education     *)
(* weight to move and positive interests and keywords weights before it    *)
C19_Witness ==
    /\ Returned
    /\ matcher = "enhanced"
    /\ query.education = ""
    /\ \E i \in 1..Len(candidates) :
           /\ candidates[i].education # ""
           /\ EducationFreed(candidates[i])
           /\ RLt(Zero, AfterInterestsStep(candidates[i]).interests_weight)
           /\ \E j \in 1..Len(call.matches) :
                  /\ call.matches[j].faculty_id = candidates[i].faculty_id
                  /\ call.matches[j].education_similarity = 0

(* the position of the candidate with this id in the input list *)
InputPosition(id) == CHOOSE i \in 1..Len(candidates) : candidates[i].faculty_id = id

(* C2: two calls in a row on the same matcher with the same resume, the    *)
(* same profiles and the same personalization argument return identical    *)
(* results.                                                                *)
C2_SameCallSameResult ==
    (call.made /\ prev.made /\ call.kwargs = prev.kwargs)
        => (call.raised = prev.raised /\ call.matches = prev.matches)

(* C4: the returned list is ordered by overall_score descending, and       *)
(* candidates with equal overall_score keep their input order.             *)
C4_SortedDescendingStable ==
    Returned =>
        \A i, j \in 1..Len(call.matches) :
            i < j =>
                /\ call.matches[i].overall_score >= call.matches[j].overall_score
                /\ call.matches[i].overall_score = call.matches[j].overall_score
                      => InputPosition(call.matches[i].faculty_id)
                            < InputPosition(call.matches[j].faculty_id)

(* a returned list of two different candidates with the same overall_score *)
C4_Witness ==
    /\ Returned
    /\ Len(call.matches) = 2
    /\ call.matches[1].overall_score = call.matches[2].overall_score
    /\ call.matches[1].overall_score > 0
    /\ call.matches[1].faculty_id # call.matches[2].faculty_id

(* C5: when scoring one candidate raises, the call still returns a result  *)
(* for every other candidate and leaves out only the failing one.          *)
C5_FailingCandidateIsolated ==
    call.made =>
        /\ ~call.raised
        /\ {call.matches[i].faculty_id : i \in 1..Len(call.matches)}
              = {candidates[i].faculty_id :
                    i \in {n \in 1..Len(candidates) : ~Raises(matcher, candidates[n])}}

(* the result of the same call on a freshly constructed matcher *)
FreshResult ==
    match_resume_with_faculty(matcher, use_transformer, use_spacy,
                              DefaultPersonalization, query, candidates, NoKwargs)

(* C6: after a call made with a personalization argument, a following call *)
(* without one returns what a freshly constructed matcher returns.         *)
C6_NoStateCrossesCalls ==
    (call.made /\ prev.made /\ DOMAIN prev.kwargs # {} /\ DOMAIN call.kwargs = {})
        => (call.raised = FreshResult.raised /\ call.matches = FreshResult.matches)

(* C8: the result of a candidate depends only on the query, the candidate  *)
(* and the personalization at the start of the loop, whatever else is in   *)
(* the batch, and the loop leaves self.personalization unchanged.          *)
C8_CandidatesIndependent ==
    call.made =>
        /\ personalization = LoopPersonalization
        /\ ~call.raised =>
              /\ Len(call.matches) = Len(candidates)
              /\ \A i \in 1..Len(candidates) :
                    \E entry \in
                          {MatchEntry(matcher, use_transformer, use_spacy,
                                      WeightsFor(LoopPersonalization, candidates[i]),
                                      query, candidates[i],
                                      SequentialTfidf(query, candidates[i]))} :
                        \E j \in 1..Len(call.matches) : call.matches[j] = entry

(* an enhanced call over two candidates whose adjusted weights differ from *)
(* each other and from the personalization                                 *)
C8_Witness ==
    /\ Returned
    /\ matcher = "enhanced"
    /\ Len(candidates) >= 2
    /\ WeightsFor(LoopPersonalization, candidates[1]) # LoopPersonalization
    /\ WeightsFor(LoopPersonalization, candidates[1])
          # WeightsFor(LoopPersonalization, candidates[2])
    /\ \E j \in 1..Len(call.matches) : call.matches[j].overall_score > 0

(* the weighted sum of candidate i before the boost *)
SumBeforeBoost(i) ==
    WeightedSum(matcher, use_transformer, use_spacy,
                WeightsFor(personalization, candidates[i]), query, candidates[i],
                SequentialTfidf(query, candidates[i])).sum

(* C9: the domain boost never decreases a score (the boosted, capped score *)
(* is at least the weighted sum whenever that sum is at most 1.0) and the  *)
(* overall score never exceeds 1.0.                                        *)
C9_BoostNeverDecreases ==
    (Returned /\ matcher = "enhanced") =>
        /\ \A i \in 1..Len(candidates) :
              RLe(SumBeforeBoost(i), One)
                 => RLe(SumBeforeBoost(i),
                        OverallScore(matcher, SumBeforeBoost(i), candidates[i]))
        /\ \A j \in 1..Len(call.matches) : call.matches[j].overall_score <= 100

(* C10: every MatchResult has overall_score in [0,1]. *)
C10_OverallScoreInUnitInterval ==
    Returned =>
        \A j \in 1..Len(call.matches) :
            call.matches[j].overall_score >= 0 /\ call.matches[j].overall_score <= 100

(* how often the id occurs among the faculty_id values of a list *)
Occurrences(id, list) ==
    Cardinality({n \in 1..Len(list) : list[n].faculty_id = id})

(* C30: a call that raises nothing returns exactly one entry per input     *)
(* candidate: the result is as long as faculty_profiles and holds every    *)
(* faculty_id as often as the input does, also for candidates with no      *)
(* available signal.                                                       *)
C30_OneResultPerCandidate ==
    Returned =>
        /\ Len(call.matches) = Len(candidates)
        /\ \A id \in {candidates[n].faculty_id : n \in 1..Len(candidates)}
                 \cup {call.matches[n].faculty_id : n \in 1..Len(call.matches)} :
               Occurrences(id, call.matches) = Occurrences(id, candidates)

(* two candidates were ranked, one of them with no data at all *)
C30_Witness ==
    /\ Returned
    /\ Len(candidates) = 2
    /\ \E n \in 1..2 :
           /\ candidates[n].research_interests = ""
           /\ candidates[n].education = ""
           /\ candidates[n].publications = ""
           /\ \E j \in 1..Len(call.matches) :
                  call.matches[j].faculty_id = candidates[n].faculty_id
    /\ Len(call.matches) = 2

(* The ranker on candidates whose scores lie close together (SpecOrder).   *)

(* three candidates that differ in their publications only *)
CloseFaculty ==
    { Profile(1, "ml", "phd", "ml", "", <<>>, <<>>),
      Profile(2, "ml", "phd", "mlv", "", <<>>, <<>>),
      Profile(3, "ml", "phd", "", "", <<>>, <<>>) }

InitOrder ==
    /\ matcher \in {"base", "enhanced"}
    /\ use_transformer \in BOOLEAN
    /\ use_spacy \in BOOLEAN
    /\ personalization = DefaultPersonalization
    /\ query = [research_interests |-> "ml", education |-> "phd", publications |-> "ml"]
    /\ candidates \in ListsUpTo(CloseFaculty, MaxBatch)
    /\ call = NoCall
    /\ prev = NoCall
    /\ nCalls = 0
    /\ lastSet = NoSet
    /\ adjusted = NoAdjustment
    /\ vectorizer = <<0, 0>>
    /\ threads = NoThreads
    /\ probe = NoProbe
    /\ evaluation = NoEvaluation
    /\ construction = Constructed

NextOrder == \E kwargs \in MatchKwargs : Match(kwargs)

SpecOrder == InitOrder /\ [][NextOrder]_vars

(* overall_score of input candidate i in the last call, before round(.., 2) *)
UnroundedScore(i) ==
    OverallScore(matcher,
                 WeightedSum(matcher, use_transformer, use_spacy,
                             WeightsFor(LoopPersonalization, candidates[i]), query,
                             candidates[i], SequentialTfidf(query, candidates[i])).sum,
                 candidates[i])

(* C29: the returned order agrees with the unrounded overall scores: a     *)
(* candidate whose overall score before rounding is strictly higher than   *)
(* another's is never placed after it.                                     *)
C29_OrderFollowsUnroundedScores ==
    Returned =>
        \A a, b \in 1..Len(call.matches) :
            a < b =>
                ~RLt(UnroundedScore(InputPosition(call.matches[a].faculty_id)),
                     UnroundedScore(InputPosition(call.matches[b].faculty_id)))

----------------------------------------------------------------------------
(* SpecConc: the loop body of two candidates run by two threads on one     *)
(* matcher.  The only state they share and write is self.vectorizer:       *)
(* calculate_tfidf_similarity returns early on an empty text, and else     *)
(* calls self.vectorizer.fit_transform(texts), which first fits the shared *)
(* vectorizer on the texts and then transforms them with whatever the      *)
(* vectorizer holds at that moment.                                        *)

Signals == <<"interests", "education", "publications">>

TextsOf(resume_data, faculty, n) ==
    CASE n = 1 -> <<resume_data.research_interests, faculty.research_interests>>
      [] n = 2 -> <<resume_data.education, faculty.education>>
      [] OTHER -> <<resume_data.publications, faculty.publications>>

NoTfidf == [interests |-> Zero, education |-> Zero, publications |-> Zero]

NewThread == [pc |-> "tfidf", sig |-> 1, tfidf |-> NoTfidf, result |-> Zero]

(* what the transform of a vectorizer fitted meanwhile on other texts can  *)
(* give: an idf vector of another length makes it raise, which the handler *)
(* of calculate_tfidf_similarity turns into 0.0; an idf vector that fits   *)
(* gives the cosine                                                        *)
StaleTransformOutcomes(a, b) == {Zero, TfidfCosine(a, b)}

WellFormed == {f \in Faculty : ~Raises("enhanced", f)}

InitConc ==
    /\ matcher = "enhanced"
    /\ use_transformer \in BOOLEAN
    /\ use_spacy \in BOOLEAN
    /\ personalization = DefaultPersonalization
    /\ query \in Resumes
    /\ candidates \in {q \in ListsUpTo(WellFormed, MaxBatch) : Len(q) = MaxBatch}
    /\ call = NoCall
    /\ prev = NoCall
    /\ nCalls = 0
    /\ lastSet = NoSet
    /\ adjusted = NoAdjustment
    /\ vectorizer = <<0, 0>>
    /\ threads = [t \in 1..MaxBatch |-> NewThread]
    /\ probe = NoProbe
    /\ evaluation = NoEvaluation
    /\ construction = Constructed

Advance(th) ==
    IF th.sig < Len(Signals) THEN [th EXCEPT !.sig = @ + 1, !.pc = "tfidf"]
    ELSE [th EXCEPT !.pc = "finish"]

(* calculate_tfidf_similarity up to the fit: the early return, or the fit  *)
(* of the shared vectorizer on this thread's texts                         *)
TfidfFit(t) ==
    /\ threads[t].pc = "tfidf"
    /\ LET th == threads[t]
           texts == TextsOf(query, candidates[t], th.sig)
       IN  IF ~Truthy(texts[1]) \/ ~Truthy(texts[2])
           THEN /\ threads' = [threads EXCEPT ![t] = Advance(th)]
                /\ UNCHANGED vectorizer
           ELSE /\ threads' = [threads EXCEPT ![t].pc = "transform"]
                /\ vectorizer' = <<t, th.sig>>
    /\ UNCHANGED <<matcher, use_transformer, use_spacy, personalization, query,
                   candidates, call, prev, nCalls, lastSet, adjusted,
                   probe, evaluation, construction>>

(* the transform and the cosine of the two rows *)
TfidfTransform(t) ==
    /\ threads[t].pc = "transform"
    /\ LET th == threads[t]
           texts == TextsOf(query, candidates[t], th.sig)
       IN  \E v \in (IF vectorizer = <<t, th.sig>>
                     THEN {TfidfCosine(texts[1], texts[2])}
                     ELSE StaleTransformOutcomes(texts[1], texts[2])) :
               threads' = [threads EXCEPT
                             ![t] = Advance([th EXCEPT !.tfidf[Signals[th.sig]] = v])]
    /\ UNCHANGED <<matcher, use_transformer, use_spacy, personalization, query,
                   candidates, call, prev, nCalls, lastSet, adjusted, vectorizer,
                   probe, evaluation, construction>>

(* the rest of the loop body: the weights, the scores, the entry *)
Finish(t) ==
    /\ threads[t].pc = "finish"
    /\ threads' =
          [threads EXCEPT
             ![t].pc = "done",
             ![t].result =
                 MatchEntry(matcher, use_transformer, use_spacy,
                            dynamic_weight_adjustment(personalization, query,
                                                      candidates[t]),
                            query, candidates[t], threads[t].tfidf)]
    /\ UNCHANGED <<matcher, use_transformer, use_spacy, personalization, query,
                   candidates, call, prev, nCalls, lastSet, adjusted, vectorizer,
                   probe, evaluation, construction>>

NextConc == \E t \in 1..MaxBatch : TfidfFit(t) \/ TfidfTransform(t) \/ Finish(t)

SpecConc == InitConc /\ [][NextConc]_vars

(* C7: scoring two candidates concurrently on one matcher gives each       *)
(* candidate the scores it gets when they are scored one after the other,  *)
(* for every interleaving of the fit and transform steps on the shared     *)
(* vectorizer.                                                             *)
C7_ConcurrentEqualsSequential ==
    \A t \in DOMAIN threads :
        threads[t].pc = "done" =>
            threads[t].result =
                MatchEntry(matcher, use_transformer, use_spacy,
                           dynamic_weight_adjustment(personalization, query,
                                                     candidates[t]),
                           query, candidates[t], SequentialTfidf(query, candidates[t]))

----------------------------------------------------------------------------
(* SpecProviders: direct calls of the similarity providers on one matcher, *)
(* with a component of the underlying computation that may throw.          *)

Texts == {"", "ml", "dl", "art", "phd"}

(* the component that throws during the call: the spaCy pipeline self.nlp, *)
(* the NLTK tokenizer / stopword list, the TF-IDF vectorizer, the sentence *)
(* encoder, the BM25 index                                                 *)
Faults == {"none", "nlp", "nltk", "vectorizer", "encoder", "bm25"}

Returns(v) == [raised |-> FALSE, value |-> v]

Throws == [raised |-> TRUE, value |-> Zero]

(* preprocess_text: the spaCy branch calls self.nlp(text) with no handler; *)
(* the NLTK branch catches and keeps the raw text                          *)
PreprocessRaises(us, fault) == us /\ fault = "nlp"

(* calculate_tfidf_similarity: the empty-input return, then the two        *)
(* preprocess_text calls outside the try, then the try around the          *)
(* vectorizer and the cosine                                               *)
TfidfOutcome(us, text1, text2, fault) ==
    IF ~Truthy(text1) \/ ~Truthy(text2) THEN Returns(Zero)
    ELSE IF PreprocessRaises(us, fault) THEN Throws
    ELSE IF fault = "vectorizer" THEN Returns(Zero)
    ELSE Returns(calculate_tfidf_similarity(text1, text2))

(* calculate_transformer_similarity: encode and cosine inside the try *)
TransformerOutcome(ut, text1, text2, fault) ==
    IF ut /\ Truthy(text1) /\ Truthy(text2) /\ fault = "encoder" THEN Returns(Zero)
    ELSE Returns(calculate_transformer_similarity(ut, text1, text2))

(* calculate_spacy_similarity: self.nlp and similarity inside the try *)
SpacyOutcome(us, text1, text2, fault) ==
    IF us /\ Truthy(text1) /\ Truthy(text2) /\ fault = "nlp" THEN Returns(Zero)
    ELSE Returns(calculate_spacy_similarity(us, text1, text2))

(* calculate_combined_similarity: it has no handler of its own, so what    *)
(* calculate_tfidf_similarity raises leaves it                             *)
CombinedOutcome(ut, us, text1, text2, fault) ==
    Apply(LAMBDA t :
              IF t.raised THEN Throws
              ELSE Returns(BlendProviders(ut, us, t.value,
                                          TransformerOutcome(ut, text1, text2, fault).value,
                                          SpacyOutcome(us, text1, text2, fault).value)),
          TfidfOutcome(us, text1, text2, fault))

(* calculate_bm25_similarity on non-empty token lists: BM25Okapi(..) and   *)
(* get_scores(..) run with no handler                                      *)
Bm25Outcome(q, d, fault) ==
    IF ~Truthy(q) \/ ~Truthy(d) THEN Returns(Zero)
    ELSE IF fault = "bm25" THEN Throws
    ELSE Returns(calculate_bm25_similarity(q, d))

InitProviders ==
    /\ matcher = "enhanced"
    /\ use_transformer \in BOOLEAN
    /\ use_spacy \in BOOLEAN
    /\ personalization = DefaultPersonalization
    /\ query = CHOOSE r \in Resumes : TRUE
    /\ candidates = <<>>
    /\ call = NoCall
    /\ prev = NoCall
    /\ nCalls = 0
    /\ lastSet = NoSet
    /\ adjusted = NoAdjustment
    /\ vectorizer = <<0, 0>>
    /\ threads = NoThreads
    /\ probe = NoProbe
    /\ evaluation = NoEvaluation
    /\ construction = Constructed

(* one call of each provider on (text1, text2); a behaviour makes one *)
ProviderCalls(text1, text2, fault) ==
    /\ ~probe.made
    /\ probe' = [made |-> TRUE, text1 |-> text1, text2 |-> text2, fault |-> fault,
                 tfidf |-> TfidfOutcome(use_spacy, text1, text2, fault),
                 transformer |-> TransformerOutcome(use_transformer, text1, text2, fault),
                 spacy |-> SpacyOutcome(use_spacy, text1, text2, fault),
                 combined |-> CombinedOutcome(use_transformer, use_spacy, text1, text2,
                                              fault),
                 bm25 |-> Bm25Outcome(text1, text2, fault)]
    /\ UNCHANGED <<matcher, use_transformer, use_spacy, personalization, query,
                   candidates, call, prev, nCalls, lastSet, adjusted, vectorizer,
                   threads, evaluation, construction>>

NextProviders ==
    \E text1 \in Texts, text2 \in Texts, fault \in Faults :
        ProviderCalls(text1, text2, fault)

SpecProviders == InitProviders /\ [][NextProviders]_vars

InUnitInterval(x) == RLe(Zero, x) /\ RLe(x, One)

(* C11: with nothing throwing, calculate_tfidf_similarity,                 *)
(* calculate_transformer_similarity, calculate_spacy_similarity and        *)
(* calculate_combined_similarity each return a value in [0,1], and exactly *)
(* 0 when either text is empty.                                            *)
C11_ProvidersInUnitInterval ==
    (probe.made /\ probe.fault = "none") =>
        \A o \in {probe.tfidf, probe.transformer, probe.spacy, probe.combined} :
            /\ ~o.raised
            /\ InUnitInterval(o.value)
            /\ (probe.text1 = "" \/ probe.text2 = "") => o.value = Zero

(* the providers the matcher has enabled, with the weight of each in the   *)
(* blend; tfidf is always on                                               *)
ActiveProviders ==
    {"tfidf"} \cup (IF use_transformer THEN {"transformer"} ELSE {})
              \cup (IF use_spacy THEN {"spacy"} ELSE {})

ClaimedWeight(provider) ==
    IF provider = "spacy" THEN R(1, 5) ELSE R(2, 5)

RECURSIVE SumOver(_, _)
SumOver(F(_), S) ==
    IF S = {} THEN Zero
    ELSE LET x == CHOOSE y \in S : TRUE
         IN  RAdd(F(x), SumOver(F, S \ {x}))

(* C20: calculate_combined_similarity is the sum of the scores of the      *)
(* enabled providers weighted 0.4 (tfidf), 0.4 (transformer) and 0.2       *)
(* (spaCy), divided by the sum of the weights of the enabled providers     *)
(* only; when every enabled provider returned the same score s, the        *)
(* combined score is s.                                                    *)
C20_BlendRenormalized ==
    (probe.made /\ ~probe.combined.raised) =>
        LET Score(provider) == probe[provider].value
            Weighted(provider) == RMul(Score(provider), ClaimedWeight(provider))
            combined == probe.combined.value
        IN  /\ combined = RDiv(SumOver(Weighted, ActiveProviders),
                               SumOver(ClaimedWeight, ActiveProviders))
            /\ \A s \in {Score(provider) : provider \in ActiveProviders} :
                   (\A provider \in ActiveProviders : Score(provider) = s)
                       => combined = s

(* the transformer is disabled, tfidf and spaCy returned different         *)
(* non-zero scores, and the combined score is their blend over 0.6         *)
C20_Witness ==
    /\ probe.made
    /\ ~probe.combined.raised
    /\ ~use_transformer
    /\ use_spacy
    /\ RLt(Zero, probe.tfidf.value)
    /\ RLt(Zero, probe.spacy.value)
    /\ probe.tfidf.value # probe.spacy.value
    /\ probe.combined.value
          = RDiv(RAdd(RMul(probe.tfidf.value, R(2, 5)), RMul(probe.spacy.value, R(1, 5))),
                 R(3, 5))

(* C12: whatever part of its computation throws, a provider call returns   *)
(* 0.0 and does not raise; this includes the preprocessing inside          *)
(* calculate_tfidf_similarity and the index construction and scoring       *)
(* inside calculate_bm25_similarity.                                       *)
C12_ProviderFailureGivesZero ==
    probe.made =>
        /\ \A o \in {probe.tfidf, probe.transformer, probe.spacy, probe.combined,
                     probe.bm25} : ~o.raised
        /\ probe.fault \in {"nlp", "vectorizer"} => probe.tfidf.value = Zero
        /\ probe.fault = "encoder" => probe.transformer.value = Zero
        /\ probe.fault = "nlp" => probe.spacy.value = Zero
        /\ probe.fault = "bm25" => probe.bm25.value = Zero

(* C24: calculate_bm25_similarity returns a value in [0,1] for every query *)
(* and every corpus, the single-document corpus of the ranker included,    *)
(* and 0.0 when the query or the corpus is empty.                          *)
C24_Bm25InUnitInterval ==
    (probe.made /\ ~probe.bm25.raised) =>
        /\ InUnitInterval(probe.bm25.value)
        /\ (probe.text1 = "" \/ probe.text2 = "") => probe.bm25.value = Zero

----------------------------------------------------------------------------
(* The ranking metrics of evaluate.py.                                     *)

(* sum(relevance) *)
RECURSIVE SumSeq(_)
SumSeq(xs) == IF Len(xs) = 0 THEN 0 ELSE Head(xs) + SumSeq(Tail(xs))

Smaller(a, b) == IF a <= b THEN a ELSE b

(* relevance[:n] *)
Prefix(xs, n) == SubSeq(xs, 1, Smaller(n, Len(xs)))

(* a precision computed over k even when fewer than k results exist *)
PrecisionOverK(relevance, k) ==
    IF Len(relevance) = 0 \/ k <= 0 THEN Zero
    ELSE R(SumSeq(Prefix(relevance, k)), k)

calculate_precision_at_k(relevance, k) ==
    IF Len(relevance) = 0 \/ k <= 0 THEN Zero
    ELSE R(SumSeq(Prefix(relevance, k)), Smaller(k, Len(Prefix(relevance, k))))

(* the loop of calculate_average_precision from index i on (i is the       *)
(* 0-based index of enumerate): [precision_sum, relevant_count]            *)
RECURSIVE PrecisionLoop(_, _, _)
PrecisionLoop(relevance, i, acc) ==
    IF i >= Len(relevance) THEN acc
    ELSE PrecisionLoop(relevance, i + 1,
             IF relevance[i + 1] > 0
             THEN [precision_sum |->
                       RAdd(acc.precision_sum,
                            R(SumSeq(Prefix(relevance, i + 1)), i + 1)),
                   relevant_count |-> acc.relevant_count + 1]
             ELSE acc)

(* an average taken over the length of the list instead of the number of   *)
(* relevant entries                                                        *)
AveragePrecisionOverLength(relevance) ==
    IF Len(relevance) = 0 \/ SumSeq(relevance) = 0 THEN Zero
    ELSE RDiv(PrecisionLoop(relevance, 0,
                            [precision_sum |-> Zero, relevant_count |-> 0]).precision_sum,
              R(Len(relevance), 1))

calculate_average_precision(relevance) ==
    IF Len(relevance) = 0 \/ SumSeq(relevance) = 0 THEN Zero
    ELSE Apply(LAMBDA acc :
                   IF acc.relevant_count > 0
                   THEN RDiv(acc.precision_sum, R(acc.relevant_count, 1))
                   ELSE Zero,
               PrecisionLoop(relevance, 0, [precision_sum |-> Zero, relevant_count |-> 0]))

----------------------------------------------------------------------------
(* SpecMetrics: calculate_precision_at_k and calculate_average_precision   *)
(* on every binary relevance list up to MaxRelevance entries.              *)

MaxRelevance == 5

RECURSIVE BinaryLists(_)
BinaryLists(n) ==
    IF n = 0 THEN {<<>>}
    ELSE BinaryLists(n - 1)
         \cup {Append(q, b) : q \in {l \in BinaryLists(n - 1) : Len(l) = n - 1},
                              b \in {0, 1}}

KValues == (-1)..(MaxRelevance + 1)

InitMetrics ==
    /\ matcher = "base"
    /\ use_transformer = FALSE
    /\ use_spacy = FALSE
    /\ personalization = DefaultPersonalization
    /\ query = CHOOSE r \in Resumes : TRUE
    /\ candidates = <<>>
    /\ call = NoCall
    /\ prev = NoCall
    /\ nCalls = 0
    /\ lastSet = NoSet
    /\ adjusted = NoAdjustment
    /\ vectorizer = <<0, 0>>
    /\ threads = NoThreads
    /\ probe = NoProbe
    /\ evaluation = NoEvaluation
    /\ construction = Constructed

(* calculate_precision_at_k(relevance, k) and                              *)
(* calculate_average_precision(relevance)                                  *)
Metrics(relevance, k) ==
    /\ ~probe.made
    /\ probe' = [made |-> TRUE, relevance |-> relevance, k |-> k,
                 precision |-> calculate_precision_at_k(relevance, k),
                 average_precision |-> calculate_average_precision(relevance)]
    /\ UNCHANGED <<matcher, use_transformer, use_spacy, personalization, query,
                   candidates, call, prev, nCalls, lastSet, adjusted, vectorizer,
                   threads, evaluation, construction>>

NextMetrics == \E relevance \in BinaryLists(MaxRelevance), k \in KValues : Metrics(relevance, k)

SpecMetrics == InitMetrics /\ [][NextMetrics]_vars

(* the number of relevant entries among the first n *)
RelevantAmong(relevance, n) ==
    Cardinality({i \in 1..Smaller(n, Len(relevance)) : relevance[i] = 1})

(* C14: precision@k is the number of relevant entries among the first k   *)
(* over k when the list has at least k entries, over the list length when  *)
(* it is shorter, 0 for an empty list or k <= 0, and always in [0,1].      *)
C14_PrecisionAtK ==
    probe.made =>
        LET rel == probe.relevance
            k == probe.k
        IN  /\ (Len(rel) = 0 \/ k <= 0) => probe.precision = Zero
            /\ (k >= 1 /\ Len(rel) >= k)
                  => probe.precision = R(RelevantAmong(rel, k), k)
            /\ (k >= 1 /\ Len(rel) >= 1 /\ Len(rel) < k)
                  => probe.precision = R(RelevantAmong(rel, Len(rel)), Len(rel))
            /\ InUnitInterval(probe.precision)

(* [1,0,1,0,0] with k = 5 gives 0.4 *)
C14_Witness ==
    /\ probe.made
    /\ probe.relevance = <<1, 0, 1, 0, 0>>
    /\ probe.k = 5
    /\ probe.precision = R(2, 5)

(* the sum over the positions in S of relevant-so-far over position *)
RECURSIVE CumulativePrecisionSum(_, _)
CumulativePrecisionSum(relevance, S) ==
    IF S = {} THEN Zero
    ELSE LET i == CHOOSE x \in S : TRUE
         IN  RAdd(R(RelevantAmong(relevance, i), i),
                  CumulativePrecisionSum(relevance, S \ {i}))

(* C15: average precision is the mean, over the positions holding a        *)
(* relevant entry, of the relevant entries up to the position over the     *)
(* position; 0 for an empty list or one with no relevant entry; in [0,1].  *)
C15_AveragePrecision ==
    probe.made =>
        LET rel == probe.relevance
            hits == {i \in 1..Len(rel) : rel[i] = 1}
        IN  /\ hits = {} => probe.average_precision = Zero
            /\ hits # {} =>
                  probe.average_precision
                      = RDiv(CumulativePrecisionSum(rel, hits), R(Cardinality(hits), 1))
            /\ InUnitInterval(probe.average_precision)

(* [1,0,1,0,0] gives (1/1 + 2/3) / 2 *)
C15_Witness ==
    /\ probe.made
    /\ probe.relevance = <<1, 0, 1, 0, 0>>
    /\ probe.average_precision = R(5, 6)

----------------------------------------------------------------------------
(* evaluate_matcher of evaluate.py.                                        *)

(* np.mean of an empty list *)
NaN == <<0, 0>>

RECURSIVE SumRationals(_)
SumRationals(xs) == IF Len(xs) = 0 THEN Zero ELSE RAdd(Head(xs), SumRationals(Tail(xs)))

(* np.mean(xs) *)
Mean(xs) == IF Len(xs) = 0 THEN NaN ELSE RDiv(SumRationals(xs), R(Len(xs), 1))

(* Python values of different types never compare equal: a faculty id is   *)
(* an int, a key of a ground-truth dict is a str                           *)
IntValue(n) == [int |-> n]

StrValue(str) == [str |-> str]

(* f_id in ground_truth[i]: membership in a dict is membership among its   *)
(* keys                                                                    *)
InDict(f_id, dict) == IntValue(f_id) \in {StrValue(key) : key \in DOMAIN dict}

(* f_id in a_list *)
InList(f_id, list) == \E n \in 1..Len(list) : list[n] = f_id

(* binary_relevance = [1 if f_id in ground_truth[i] else 0 for f_id in matched_ids] *)
BinaryRelevance(matched_ids, truth) ==
    [n \in 1..Len(matched_ids) |-> IF InDict(matched_ids[n], truth) THEN 1 ELSE 0]

(* the graded relevance of one id: 3, 2, 1 by bucket, else 0 *)
Grade(f_id, truth) ==
    IF InList(f_id, truth.perfect) THEN 3
    ELSE IF InList(f_id, truth.strong) THEN 2
    ELSE IF InList(f_id, truth.weak) THEN 1
    ELSE 0

GradedRelevance(matched_ids, truth) ==
    [n \in 1..Len(matched_ids) |-> Grade(matched_ids[n], truth)]

(* 1 / log2(rank + 1) in thousandths, the discount of sklearn's ndcg_score *)
Discount(rank) ==
    CASE rank = 1 -> R(1, 1)
      [] rank = 2 -> R(631, 1000)
      [] rank = 3 -> R(1, 2)
      [] rank = 4 -> R(431, 1000)
      [] OTHER -> R(387, 1000)

RECURSIVE Dcg(_, _)
Dcg(gains, n) ==
    IF n = 0 THEN Zero ELSE RAdd(Dcg(gains, n - 1), RMul(R(gains[n], 1), Discount(n)))

RECURSIVE InsertGain(_, _)
InsertGain(sorted, g) ==
    IF sorted = <<>> THEN <<g>>
    ELSE IF Head(sorted) >= g THEN <<Head(sorted)>> \o InsertGain(Tail(sorted), g)
    ELSE <<g>> \o sorted

RECURSIVE IdealOrder(_)
IdealOrder(gains) ==
    IF Len(gains) = 0 THEN <<>>
    ELSE InsertGain(IdealOrder(SubSeq(gains, 1, Len(gains) - 1)), gains[Len(gains)])

(* calculate_ndcg_at_k: y_pred ranks the results in the order returned, so *)
(* the score is the DCG of that order over the DCG of the ideal order;     *)
(* ndcg_score refuses a single document with a ValueError, which the       *)
(* handler turns into 0.0                                                  *)
calculate_ndcg_at_k(relevance_scores, k) ==
    IF Len(relevance_scores) = 0 \/ k <= 0 THEN Zero
    ELSE IF Len(relevance_scores) = 1 THEN Zero
    ELSE LET n == Smaller(k, Len(relevance_scores))
             ideal == Dcg(IdealOrder(relevance_scores), n)
         IN  IF ideal = Zero THEN Zero ELSE RDiv(Dcg(relevance_scores, n), ideal)

(* faculty.get('department_name', '') of the profile with this id *)
Department(f_id) ==
    CASE f_id \in {1, 3, 4} -> "Computer Science"
      [] f_id \in {2, 5} -> "Electrical Engineering"
      [] OTHER -> ""

(* calculate_diversity(matches, key = 'department') *)
calculate_diversity(matched_ids) ==
    IF Len(matched_ids) = 0 THEN Zero
    ELSE R(Cardinality({Department(matched_ids[n]) : n \in 1..Len(matched_ids)}),
           Len(matched_ids))

(* the call made with a personalization override *)
EvaluatedCallWithOverride(kind, ut, us, p, resume, faculty_profiles) ==
    match_resume_with_faculty(kind, ut, us, p, resume, faculty_profiles,
                              [key \in {"interests_weight"} |-> One])

(* matches = matcher.match_resume_with_faculty(resume, faculty_profiles) *)
EvaluatedCall(kind, ut, us, p, resume, faculty_profiles) ==
    match_resume_with_faculty(kind, ut, us, p, resume, faculty_profiles, NoKwargs)

NoScores == [matched_ids |-> <<>>, binary_relevance |-> <<>>, precision |-> <<>>,
             average_precision |-> <<>>, ndcg |-> <<>>, diversity |-> <<>>]

(* the body of the loop over test_data after the call returned matches *)
ScoreCase(acc, matches, truth, top_k) ==
    LET top_matches == Prefix(matches, top_k)
        matched_ids == [n \in 1..Len(top_matches) |-> top_matches[n].faculty_id]
        binary_relevance == BinaryRelevance(matched_ids, truth)
        graded_relevance == GradedRelevance(matched_ids, truth)
    IN  [matched_ids |-> Append(acc.matched_ids, matched_ids),
         binary_relevance |-> Append(acc.binary_relevance, binary_relevance),
         precision |-> Append(acc.precision,
                              calculate_precision_at_k(binary_relevance, top_k)),
         average_precision |-> Append(acc.average_precision,
                                      calculate_average_precision(binary_relevance)),
         ndcg |-> Append(acc.ndcg, calculate_ndcg_at_k(graded_relevance, top_k)),
         diversity |-> Append(acc.diversity, calculate_diversity(matched_ids))]

(* the loop of evaluate_matcher from test case i on; st.p is the matcher's *)
(* personalization, st.acc the score lists.  An exception of the matcher   *)
(* leaves evaluate_matcher.                                                *)
RECURSIVE EvaluateLoop(_, _, _, _, _, _, _, _)
EvaluateLoop(kind, ut, us, st, test_data, ground_truth, top_k, i) ==
    IF i > Len(test_data)
    THEN [raised |-> FALSE, personalization |-> st.p, scores |-> st.acc]
    ELSE Apply(LAMBDA r :
                   IF r.raised
                   THEN [raised |-> TRUE, personalization |-> r.personalization,
                         scores |-> st.acc]
                   ELSE Apply(LAMBDA st1 : EvaluateLoop(kind, ut, us, st1, test_data,
                                                        ground_truth, top_k, i + 1),
                              [p |-> r.personalization,
                               acc |-> ScoreCase(st.acc, r.matches, ground_truth[i],
                                                 top_k)]),
               EvaluatedCall(kind, ut, us, st.p, test_data[i].resume,
                             test_data[i].faculty_profiles))

(* evaluate_matcher(matcher, test_data, ground_truth, top_k), without the  *)
(* measured time                                                           *)
evaluate_matcher(kind, ut, us, p, test_data, ground_truth, top_k) ==
    Apply(LAMBDA r :
              [raised |-> r.raised,
               personalization |-> r.personalization,
               matched_ids |-> r.scores.matched_ids,
               binary_relevance |-> r.scores.binary_relevance,
               results |->
                   IF r.raised THEN [raised |-> TRUE]
                   ELSE [raised |-> FALSE,
                         precision_at_k |-> Mean(r.scores.precision),
                         mean_average_precision |-> Mean(r.scores.average_precision),
                         ndcg_at_k |-> Mean(r.scores.ndcg),
                         diversity |-> Mean(r.scores.diversity),
                         num_test_cases |-> Len(test_data)]],
          EvaluateLoop(kind, ut, us, [p |-> p, acc |-> NoScores], test_data,
                       ground_truth, top_k, 1))

----------------------------------------------------------------------------
(* SpecEval: evaluate_matcher run after run on one matcher, built as       *)
(* compare_matchers builds it (use_transformer False, use_spacy True).     *)

MaxCases == 1

MaxRuns == 2

MaxTopK == 2

FacultyById(f_id) == CHOOSE f \in Faculty : f.faculty_id = f_id

Batches ==
    { <<FacultyById(1), FacultyById(2), FacultyById(3)>>,
      <<FacultyById(4), FacultyById(1)>>,
      <<FacultyById(2), FacultyById(6)>> }

Cases ==
    { [resume |-> resume, faculty_profiles |-> batch] :
        resume \in {r \in Resumes : Truthy(r.research_interests)}, batch \in Batches }

GroundTruthCases ==
    { [perfect |-> <<1>>, strong |-> <<2>>, weak |-> <<3>>],
      [perfect |-> <<2>>, strong |-> <<>>, weak |-> <<>>],
      [perfect |-> <<>>, strong |-> <<>>, weak |-> <<>>] }

(* the sequences of n members of S *)
RECURSIVE SeqsOfLength(_, _)
SeqsOfLength(S, n) ==
    IF n = 0 THEN {<<>>}
    ELSE {Append(q, x) : q \in SeqsOfLength(S, n - 1), x \in S}

(* the sequences of at most n members of S *)
SeqsUpTo(S, n) == UNION {SeqsOfLength(S, m) : m \in 0..n}

(* the measured average_execution_time of a run *)
Times == {1, 2}

NoResults == [raised |-> FALSE]

InitEval ==
    /\ matcher \in {"base", "enhanced"}
    /\ use_transformer = FALSE
    /\ use_spacy = TRUE
    /\ personalization = DefaultPersonalization
    /\ query = CHOOSE r \in Resumes : TRUE
    /\ candidates = <<>>
    /\ call = NoCall
    /\ prev = NoCall
    /\ nCalls = 0
    /\ lastSet = NoSet
    /\ adjusted = NoAdjustment
    /\ vectorizer = <<0, 0>>
    /\ threads = NoThreads
    /\ probe = NoProbe
    /\ construction = Constructed
    /\ \E n \in 1..MaxCases :
         \E test_data \in SeqsOfLength(Cases, n),
            ground_truth \in SeqsOfLength(GroundTruthCases, n),
            top_k \in 1..MaxTopK :
              evaluation = [runs |-> 0, test_data |-> test_data,
                            ground_truth |-> ground_truth, top_k |-> top_k,
                            raised |-> FALSE, matched_ids |-> <<>>,
                            binary_relevance |-> <<>>,
                            results |-> NoResults, time |-> 0,
                            previous |-> NoResults, previous_time |-> 0]

(* evaluate_matcher(matcher, test_data, ground_truth, top_k) *)
EvaluateMatcher(time) ==
    /\ evaluation.runs < MaxRuns
    /\ \E r \in {evaluate_matcher(matcher, use_transformer, use_spacy, personalization,
                                  evaluation.test_data, evaluation.ground_truth,
                                  evaluation.top_k)} :
           /\ personalization' = r.personalization
           /\ evaluation' = [evaluation EXCEPT
                               !.runs = @ + 1,
                               !.raised = r.raised,
                               !.matched_ids = r.matched_ids,
                               !.binary_relevance = r.binary_relevance,
                               !.previous = evaluation.results,
                               !.previous_time = evaluation.time,
                               !.results = r.results,
                               !.time = time]
    /\ UNCHANGED <<matcher, use_transformer, use_spacy, query, candidates, call, prev,
                   nCalls, lastSet, adjusted, vectorizer, threads, probe,
                   construction>>

NextEval == \E time \in Times : EvaluateMatcher(time)

SpecEval == InitEval /\ [][NextEval]_vars

(* the ids in the three buckets of a ground-truth entry *)
Buckets(truth) ==
    {truth.perfect[n] : n \in 1..Len(truth.perfect)}
    \cup {truth.strong[n] : n \in 1..Len(truth.strong)}
    \cup {truth.weak[n] : n \in 1..Len(truth.weak)}

(* C13: the binary relevance of a top-k result is 1 exactly when its       *)
(* faculty_id is in the union of the perfect, strong and weak buckets of   *)
(* the query's ground truth.                                               *)
C13_BinaryRelevanceIsBucketMembership ==
    (evaluation.runs > 0 /\ ~evaluation.raised) =>
        \A i \in 1..Len(evaluation.matched_ids) :
            \A n \in 1..Len(evaluation.matched_ids[i]) :
                evaluation.binary_relevance[i][n] = 1
                    <=> evaluation.matched_ids[i][n]
                            \in Buckets(evaluation.ground_truth[i])

(* C16: two runs of evaluate_matcher on the same matcher and workload      *)
(* return the same precision_at_k, mean_average_precision, ndcg_at_k,      *)
(* diversity and num_test_cases, and a run leaves the matcher's weights    *)
(* as they were.                                                           *)
C16_EvaluationDeterministic ==
    /\ evaluation.runs >= 2 => evaluation.results = evaluation.previous
    /\ evaluation.runs >= 1 => personalization = DefaultPersonalization

(* two runs of the enhanced matcher with non-zero scores and different     *)
(* measured times                                                          *)
C16_Witness ==
    /\ evaluation.runs = 2
    /\ matcher = "enhanced"
    /\ ~evaluation.results.raised
    /\ RLt(Zero, evaluation.results.ndcg_at_k)
    /\ RLt(Zero, evaluation.results.diversity)
    /\ evaluation.time # evaluation.previous_time

----------------------------------------------------------------------------
(* SpecAwards: calculate_award_recognition on every list of up to          *)
(* MaxAwards awards.  An award text may hold a prestigious term, a major   *)
(* term, both ("Distinguished ACM Fellow") or neither; an award may also   *)
(* be something that is not a string.                                      *)

MaxAwards == 3

AwardKinds ==
    {[str |-> TRUE, prestigious |-> p, major |-> m] : p \in BOOLEAN, m \in BOOLEAN}
    \cup {NotAString}

(* award.lower() on an award that is no string raises inside the count *)
AwardsOutcome(awards) ==
    IF \E n \in 1..Len(awards) : ~awards[n].str THEN Throws
    ELSE Returns(calculate_award_recognition([awards |-> awards]))

InitAwards ==
    /\ matcher = "enhanced"
    /\ use_transformer = FALSE
    /\ use_spacy = FALSE
    /\ personalization = DefaultPersonalization
    /\ query = CHOOSE r \in Resumes : TRUE
    /\ candidates = <<>>
    /\ call = NoCall
    /\ prev = NoCall
    /\ nCalls = 0
    /\ lastSet = NoSet
    /\ adjusted = NoAdjustment
    /\ vectorizer = <<0, 0>>
    /\ threads = NoThreads
    /\ probe = NoProbe
    /\ evaluation = NoEvaluation
    /\ construction = Constructed

(* matcher.calculate_award_recognition({'awards': awards}); a behaviour    *)
(* makes one call                                                          *)
AwardRecognition(awards) ==
    /\ ~probe.made
    /\ probe' = [made |-> TRUE, awards |-> awards, outcome |-> AwardsOutcome(awards),
                 counts |-> AwardCounts(awards)]
    /\ UNCHANGED <<matcher, use_transformer, use_spacy, personalization, query,
                   candidates, call, prev, nCalls, lastSet, adjusted, vectorizer,
                   threads, evaluation, construction>>

NextAwards == \E awards \in SeqsUpTo(AwardKinds, MaxAwards) : AwardRecognition(awards)

SpecAwards == InitAwards /\ [][NextAwards]_vars

(* C17: for a list of award strings the score is                           *)
(* (0.5 * prestigious + 0.3 * major + 0.1 * other) / number of awards,     *)
(* capped at 1.0, where other is the number of awards matching no tier;    *)
(* it is 0 for no awards, at least 0.5 for a single prestigious award and  *)
(* 0.1 for a single unmatched award.                                       *)
C17_AwardRecognitionFormula ==
    (probe.made /\ ~probe.outcome.raised) =>
        LET awards == probe.awards
            n == Len(awards)
            prestigious == Cardinality({i \in 1..n : awards[i].prestigious})
            major == Cardinality({i \in 1..n : awards[i].major})
            other == Cardinality({i \in 1..n : ~awards[i].prestigious /\ ~awards[i].major})
            weighted == RAdd(R(5 * prestigious, 10),
                             RAdd(R(3 * major, 10), R(other, 10)))
            score == probe.outcome.value
        IN  /\ n = 0 => score = Zero
            /\ n > 0 => score = RMin(RDiv(weighted, R(n, 1)), One)
            /\ (n = 1 /\ awards[1].prestigious) => RLe(R(1, 2), score)
            /\ (n = 1 /\ ~awards[1].prestigious /\ ~awards[1].major) => score = R(1, 10)

(* C27: in calculate_award_recognition every award is counted in exactly   *)
(* one tier: prestigious_count + major_count + other_count is the number   *)
(* of awards and none of the three counts is negative, for every award     *)
(* list.                                                                   *)
C27_EachAwardInOneTier ==
    (probe.made /\ ~probe.outcome.raised) =>
        /\ probe.counts.prestigious_count + probe.counts.major_count
             + probe.counts.other_count = Len(probe.awards)
        /\ probe.counts.prestigious_count >= 0
        /\ probe.counts.major_count >= 0
        /\ probe.counts.other_count >= 0

----------------------------------------------------------------------------
(* The life of one matcher: __init__, then provider calls (SpecLife).      *)

(* a flag that keeps the value asked for at construction, whatever the     *)
(* load does                                                               *)
FlagAsRequested(requested, load_fails) == requested

(* self.use_transformer / self.use_spacy when __init__ returns: the value  *)
(* passed in, reset to False in the except branch of the model load        *)
FlagAfterLoad(requested, load_fails) == requested /\ ~load_fails

NotConstructed == [done |-> FALSE]

InitLife ==
    /\ matcher \in {"base", "enhanced"}
    /\ use_transformer = FALSE
    /\ use_spacy = FALSE
    /\ personalization = DefaultPersonalization
    /\ query = CHOOSE r \in Resumes : TRUE
    /\ candidates = <<>>
    /\ call = NoCall
    /\ prev = NoCall
    /\ nCalls = 0
    /\ lastSet = NoSet
    /\ adjusted = NoAdjustment
    /\ vectorizer = <<0, 0>>
    /\ threads = NoThreads
    /\ probe = NoProbe
    /\ evaluation = NoEvaluation
    /\ construction = NotConstructed

(* ResumeMatcher.__init__(use_transformer, use_spacy); the two loads       *)
(* either succeed or raise                                                 *)
Construct(transformer_arg, spacy_arg, transformer_load_fails, spacy_load_fails) ==
    /\ ~construction.done
    /\ use_transformer' = FlagAfterLoad(transformer_arg, transformer_load_fails)
    /\ use_spacy' = FlagAfterLoad(spacy_arg, spacy_load_fails)
    /\ construction' = [done |-> TRUE,
                        use_transformer |-> transformer_arg,
                        use_spacy |-> spacy_arg,
                        transformer_load_failed |->
                            transformer_arg /\ transformer_load_fails,
                        spacy_load_failed |-> spacy_arg /\ spacy_load_fails]
    /\ UNCHANGED <<matcher, personalization, query, candidates, call, prev, nCalls,
                   lastSet, adjusted, vectorizer, threads, probe, evaluation>>

(* one more round of provider calls on the constructed matcher *)
ProviderCallsAgain(text1, text2, fault) ==
    /\ construction.done
    /\ probe' = [made |-> TRUE, text1 |-> text1, text2 |-> text2, fault |-> fault,
                 tfidf |-> TfidfOutcome(use_spacy, text1, text2, fault),
                 transformer |-> TransformerOutcome(use_transformer, text1, text2, fault),
                 spacy |-> SpacyOutcome(use_spacy, text1, text2, fault),
                 combined |-> CombinedOutcome(use_transformer, use_spacy, text1, text2,
                                              fault),
                 bm25 |-> Bm25Outcome(text1, text2, fault)]
    /\ UNCHANGED <<matcher, use_transformer, use_spacy, personalization, query,
                   candidates, call, prev, nCalls, lastSet, adjusted, vectorizer,
                   threads, evaluation, construction>>

NextLife ==
    \/ \E transformer_arg \in BOOLEAN, spacy_arg \in BOOLEAN,
          transformer_load_fails \in BOOLEAN, spacy_load_fails \in BOOLEAN :
          Construct(transformer_arg, spacy_arg, transformer_load_fails,
                    spacy_load_fails)
    \/ \E text1 \in Texts, text2 \in Texts, fault \in Faults :
          ProviderCallsAgain(text1, text2, fault)

SpecLife == InitLife /\ [][NextLife]_vars

(* the embedding model was asked for and its load raised *)
TransformerLoadFailed == construction.done /\ construction.transformer_load_failed

(* the provider calls made after the failed load: the transformer provider *)
(* returned 0.0, and a combined similarity that returned is the blend of   *)
(* tfidf and spaCy over their own weights, 0.4 and (if enabled) 0.2        *)
CallsAfterFailedLoad ==
    (TransformerLoadFailed /\ probe.made) =>
        /\ probe.transformer = Returns(Zero)
        /\ ~probe.combined.raised =>
               probe.combined.value =
                   IF use_spacy
                   THEN RDiv(RAdd(RMul(probe.tfidf.value, R(2, 5)),
                                  RMul(probe.spacy.value, R(1, 5))), R(3, 5))
                   ELSE probe.tfidf.value

(* C21: if the embedding model fails to load at construction,              *)
(* use_transformer is False when __init__ returns and in every later       *)
(* state; every calculate_transformer_similarity call made afterwards      *)
(* returns 0.0 without raising, and every combined similarity leaves the   *)
(* transformer's 0.4 out of both the sum and the divisor.                  *)
C21_FailedLoadDisablesForGood ==
    [](TransformerLoadFailed => [](~use_transformer /\ CallsAfterFailedLoad))

(* the load failed, spaCy is on, and a later call blended two non-zero     *)
(* scores                                                                  *)
C21_Witness ==
    /\ TransformerLoadFailed
    /\ use_spacy
    /\ probe.made
    /\ ~probe.combined.raised
    /\ RLt(Zero, probe.tfidf.value)
    /\ RLt(Zero, probe.spacy.value)
    /\ RLt(Zero, probe.combined.value)

----------------------------------------------------------------------------
(* calculate_domain_boost on interest lists (SpecBoost).                   *)

MaxInterests == 2

InterestStrings ==
    { <<"Machine", " ", "Learning">>, <<"machine">>, <<"learning">>,
      <<"micro", "robotics">>, <<"ROBOTICS">>, <<"computer", " ", "vision">>,
      <<"Art", " ", "History">>, <<>> }

(* the orders in which a list of n interests can be given *)
Orders(n) == {f \in [1..n -> 1..n] : \A a, b \in 1..n : f[a] = f[b] => a = b}

Reordered(faculty_interests, order) ==
    [n \in 1..Len(faculty_interests) |-> faculty_interests[order[n]]]

InitBoost ==
    /\ matcher = "enhanced"
    /\ use_transformer \in BOOLEAN
    /\ use_spacy \in BOOLEAN
    /\ personalization = DefaultPersonalization
    /\ query = CHOOSE r \in Resumes : TRUE
    /\ candidates = <<>>
    /\ call = NoCall
    /\ prev = NoCall
    /\ nCalls = 0
    /\ lastSet = NoSet
    /\ adjusted = NoAdjustment
    /\ vectorizer = <<0, 0>>
    /\ threads = NoThreads
    /\ probe = NoProbe
    /\ evaluation = NoEvaluation
    /\ construction = Constructed

(* calculate_domain_boost on a list of interests and on the same interests *)
(* given in another order                                                  *)
DomainBoost(faculty_interests, order) ==
    /\ ~probe.made
    /\ probe' = [made |-> TRUE,
                 faculty_interests |-> faculty_interests,
                 boost |-> calculate_domain_boost(faculty_interests),
                 reordered |-> Reordered(faculty_interests, order),
                 reordered_boost |->
                     calculate_domain_boost(Reordered(faculty_interests, order))]
    /\ UNCHANGED <<matcher, use_transformer, use_spacy, personalization, query,
                   candidates, call, prev, nCalls, lastSet, adjusted, vectorizer,
                   threads, evaluation, construction>>

NextBoost ==
    \E faculty_interests \in SeqsUpTo(InterestStrings, MaxInterests) :
        \E order \in Orders(Len(faculty_interests)) :
            DomainBoost(faculty_interests, order)

SpecBoost == InitBoost /\ [][NextBoost]_vars

(* the high-demand topics whose text, lower-cased, is a substring of the   *)
(* candidate's lower-cased interests text                                  *)
MatchingTopics(faculty_interests) ==
    {d \in DOMAIN domain_boosts :
        OccursIn(DomainText(d), JoinLower(faculty_interests))}

(* C22: calculate_domain_boost returns the largest multiplier among the    *)
(* high-demand topics that occur, case-insensitively, as a substring of    *)
(* the candidate's interests text, and 1.0 when no topic occurs or the     *)
(* interest list is empty; the result is one of the table's multipliers or *)
(* 1.0, and lies in [1.0, 1.2].                                            *)
C22_DomainBoostIsLargestMatch ==
    probe.made =>
        LET topics == MatchingTopics(probe.faculty_interests)
            boost == probe.boost
        IN  /\ topics = {} => boost = One
            /\ topics # {} =>
                  /\ \E d \in topics : boost = domain_boosts[d]
                  /\ \A d \in topics : RLe(domain_boosts[d], boost)
            /\ boost \in {domain_boosts[d] : d \in DOMAIN domain_boosts} \cup {One}
            /\ RLe(One, boost) /\ RLe(boost, R(6, 5))

(* two topics with different multipliers occur, one of them in upper case, *)
(* and the result is the larger multiplier                                 *)
C22_Witness ==
    /\ probe.made
    /\ probe.faculty_interests = << <<"ROBOTICS">>, <<"computer", " ", "vision">> >>
    /\ probe.boost = R(23, 20)

(* C28: the result of calculate_domain_boost is the same for every order   *)
(* of the interest list, and it is the largest multiplier of the topics    *)
(* that occur inside a single interest string.                             *)
C28_BoostIgnoresOrder ==
    probe.made =>
        /\ probe.boost = probe.reordered_boost
        /\ \A d \in MatchingTopics(probe.faculty_interests) :
               \E n \in 1..Len(probe.faculty_interests) :
                   OccursIn(DomainText(d), Lower(probe.faculty_interests[n]))

----------------------------------------------------------------------------
(* The keyword overlap of the loop body on interests texts (SpecKeywords). *)

MaxWords == 2

Words == {"Machine", "machine", "the", "ai"}

InitKeywords ==
    /\ matcher = "enhanced"
    /\ use_transformer = FALSE
    /\ use_spacy \in BOOLEAN
    /\ personalization = DefaultPersonalization
    /\ query = CHOOSE r \in Resumes : TRUE
    /\ candidates = <<>>
    /\ call = NoCall
    /\ prev = NoCall
    /\ nCalls = 0
    /\ lastSet = NoSet
    /\ adjusted = NoAdjustment
    /\ vectorizer = <<0, 0>>
    /\ threads = NoThreads
    /\ probe = NoProbe
    /\ evaluation = NoEvaluation
    /\ construction = Constructed

(* the keyword_match step of the loop body for one pair of interests texts *)
KeywordMatchStep(stopwords_readable, resume_words, faculty_words) ==
    /\ ~probe.made
    /\ probe' = [made |-> TRUE,
                 resume_words |-> resume_words,
                 faculty_words |-> faculty_words,
                 resume_keywords |->
                     extract_keywords(use_spacy, stopwords_readable, resume_words),
                 faculty_keywords |->
                     extract_keywords(use_spacy, stopwords_readable, faculty_words),
                 keyword_match |->
                     KeywordMatchOfWords(use_spacy, stopwords_readable, resume_words,
                                         faculty_words)]
    /\ UNCHANGED <<matcher, use_transformer, use_spacy, personalization, query,
                   candidates, call, prev, nCalls, lastSet, adjusted, vectorizer,
                   threads, evaluation, construction>>

NextKeywords ==
    \E stopwords_readable \in BOOLEAN,
       resume_words \in SeqsUpTo(Words, MaxWords),
       faculty_words \in SeqsUpTo(Words, MaxWords) :
        KeywordMatchStep(stopwords_readable, resume_words, faculty_words)

SpecKeywords == InitKeywords /\ [][NextKeywords]_vars

(* the keywords of a list, compared case-insensitively *)
Folded(keywords) == {LowerWord(keywords[n]) : n \in 1..Len(keywords)}

(* C23: keyword_match equals the number of keywords common to the query's  *)
(* and the candidate's interests text, compared case-insensitively,        *)
(* divided by max(number of query keywords, 1); it is in [0,1], and it is  *)
(* 0.0 whenever either interests text or either keyword list is empty.     *)
C23_KeywordMatchIsOverlapRatio ==
    probe.made =>
        LET common == Folded(probe.resume_keywords) \cap Folded(probe.faculty_keywords)
            count == Len(probe.resume_keywords)
        IN  /\ probe.keyword_match
                  = R(Cardinality(common), IF count > 1 THEN count ELSE 1)
            /\ RLe(Zero, probe.keyword_match) /\ RLe(probe.keyword_match, One)
            /\ (\/ Len(probe.resume_words) = 0
                \/ Len(probe.faculty_words) = 0
                \/ Len(probe.resume_keywords) = 0
                \/ Len(probe.faculty_keywords) = 0) => probe.keyword_match = Zero

(* the query's two keywords differ only in case and one of them is the     *)
(* candidate's keyword: one common keyword over two query keywords         *)
C23_Witness ==
    /\ probe.made
    /\ probe.resume_words = <<"Machine", "machine">>
    /\ Len(probe.resume_keywords) = 2
    /\ probe.faculty_words = <<"machine", "the">>
    /\ probe.keyword_match = R(1, 2)
============================================================================
